---- MODULE Spec2Model ----
(***************************************************************************)
(* SteeleLab VNA: the client-side sweep orchestrator (SLVNA.run and        *)
(* SLVNA._fsweep with its scoped generator / TCP sessions) and the SoC     *)
(* server's DMA pipeline (DataQueue.keep_fetching against the command      *)
(* handler of TCPDataServer).                                              *)
(***************************************************************************)
EXTENDS Integers, Sequences, FiniteSets, TLC

(***************************************************************************)
(* Bounds of the model.                                                    *)
(***************************************************************************)
\* largest number of sweep points N (SLVNAConfig.points) that is explored
MaxPoints == 3
\* TCPCommandProtocol.POINTS_PER_PACKET (45 in protocol.py:67), scaled down
POINTS_PER_PACKET == 2
\* capacity of the DataQueue (2 ** MAXSIZE_BITS - 1 in data_processing.py:218),
\* scaled down
MAXSIZE == 2
\* points per DMA transfer (PLInterface.points_per_transfer)
PointsPerTransfer == 2
\* commands the connected client sends in one explored run
MaxCommands == 4
\* DMA transfers the producer starts in one explored run
MaxFetches == 3
\* width of a PL configuration register in bits (32 on the SoC)
WordBits == 24
\* register operations in one explored run
MaxOps == 2
\* calls of set_ in one explored run
MaxSets == 2
\* connections the server accepts in one explored run
MaxAccepts == 2

(***************************************************************************)
(* Client side: orchestrator, generators, TCP client.                      *)
(***************************************************************************)
\* the threads that invoke run() on the one orchestrator (test_running)
Callers == {"t1", "t2"}

\* gen_rf, gen_lo, gen_clk in the order of the with statement of _fsweep
GenOrder == <<"rf", "lo", "clk">>
Gens == {"rf", "lo", "clk"}

\* sweep modes that pass _ready_checks in the modelled configuration
SweepModes == {"frequency", "power"}

\* the modes _ready_checks knows
KnownModes == {"frequency", "continuouswave", "time", "power", "2d"}

\* values of sweep_mode: the documented ones, None ("unset") and what
\* set_cw assigns ("continouswave")
AllModes == KnownModes \cup {"table", "unset", "continouswave"}

VARIABLES
    \* ---- client ----
    running,        \* SLVNAConfig._running (threading.Event)
    sweep_mode,     \* SLVNAConfig.sweep_mode
    has_clk,        \* SLVNAConfig.gen_clk is not None
    points,         \* SLVNAConfig.points
    gen_open,       \* per generator: controller.gen is not None
    output,         \* per generator: RF output of the instrument is on
    sock,           \* per caller: state of the TCPClient socket of its sweep
    pc,             \* per caller: position inside run() / _fsweep()
    idx,            \* per caller: index of the next statement of the block
    stack,          \* per caller: context managers entered and not yet exited
    exc,            \* per caller: exception in flight ("none" when none)
    log,            \* per caller: operations issued, in program order
    points_done,    \* per caller: write cursor of the collection loop
    data,           \* per caller: the result matrix (row -> point label)
    writes,         \* per caller: how often each row was written
    recvd,          \* per caller: points received so far (labels the stream)
    faults,         \* an environment failure (instrument I/O error, transport
                    \* error) may still be injected
    cfg,            \* what _ready_checks reads: required fields present,
                    \* timestep, capabilities of the generators; and the
                    \* temporaries _deadtime, _triglen it assigns (0: None)
    attrs,          \* attributes of the orchestrator reachable through set_:
                    \* 0 is the value after construction
    set_out,        \* history: the last call of set_ and its outcome
    nsets,          \* calls of set_ so far
    \* ---- server ----
    fetch,          \* DataQueue.fetch (threading.Event)
    paused,         \* DataQueue.paused
    exit,           \* DataQueue.exit
    queue,          \* the items of the DataQueue, oldest first
    enable,         \* PLInterface._enabled, the PL enable bit
    config_valid,   \* the MMIO contents passed PLInterface.verify_config at start
    ppc,            \* producer thread: position inside keep_fetching
    new,            \* producer thread: local `new`: kind "unbound" before the
                    \* first assignment, "block" with its points, or "partial"
    put_i,          \* producer thread: index of the for loop over the block
    dma_epoch,      \* producer thread: enable period in which the transfer began
    fetch_func,     \* producer thread: the fetch_func argument of keep_fetching
    hpc,            \* main thread: position inside the command handler
    cmd,            \* main thread: command being handled
    data_packet,    \* main thread: local data_packet of get_data
    response,       \* main thread: last response sent to the client
    epoch,          \* history: number of times the PL was enabled
    pl_next,        \* history: index of the next point the PL hands to the DMA
    sent,           \* history: points sent in data packets since the PL was enabled
    full_hit,       \* history: put_nowait raised Full since fetch was last set
    ncmds,          \* commands received so far
    nfetches,       \* DMA transfers started so far
    listen_sock,    \* TCPDataServer.sock, the listening socket
    stop_log,       \* history: what TCPDataServer.stop has done, in order
    server_waits_for_client,  \* main thread: local of serve_one_client
    accepts,        \* connections accepted so far
    \* ---- PL registers ----
    mmios,          \* PLInterface.mmios: content of each register
    mm,             \* history: the last register operation and its outcome
    nops,           \* register operations so far
    first_dma,      \* PLInterface._first_dma
    dma_output_buffer   \* len(PLInterface.dma_output_buffer), in words

clientVars == <<running, sweep_mode, has_clk, points, gen_open, output, sock,
                pc, idx, stack, exc, log, points_done, data, writes, recvd,
                faults, cfg, attrs, set_out, nsets>>

confVars == <<attrs, set_out, nsets>>

serverVars == <<fetch, paused, exit, queue, enable, config_valid, ppc, new,
                put_i, dma_epoch, fetch_func, hpc, cmd, data_packet, response, epoch,
                pl_next, sent, full_hit, ncmds, nfetches, listen_sock,
                stop_log, server_waits_for_client, accepts>>

plVars == <<mmios, mm, nops, first_dma, dma_output_buffer>>

vars == <<clientVars, serverVars, plVars>>

Last(s) == s[Len(s)]
Front(s) == SubSeq(s, 1, Len(s) - 1)

\* ' '.join(exc_val.args) in TCPClient.__exit__ succeeds only when every
\* argument of the exception is a string; OSError family members raised by
\* the socket carry (errno, strerror).
StrArgs(e) == e # "ConnectionResetError"

\* statements of _fsweep between entering the TCP scope and the loop
PreLoop ==
    << <<"rf", "fsweep">>, <<"lo", "fsweep">>,
       <<"clk", "continuous_wave">>, <<"clk", "rf_on">>,
       <<"tcp", "send_tpp">>, <<"tcp", "send_dead_time">>,
       <<"tcp", "send_trigger_length">>,
       <<"tcp", "send_trigger_config_0">>, <<"tcp", "send_trigger_config_1">>,
       <<"tcp", "get_server_cpu_temp">>,
       <<"rf", "rf_on">>, <<"lo", "rf_on">>,
       <<"tcp", "start_acquisition">> >>

\* the statements after the loop with the generators switched off in the
\* reverse of the order in which they were switched on
PostLoop_reversed ==
    << <<"tcp", "stop_acquisition">>,
       <<"lo", "rf_off">>, <<"rf", "rf_off">>,
       <<"tcp", "get_server_cpu_temp">>,
       <<"clk", "rf_off">> >>

\* statements of _fsweep after the loop
PostLoop ==
    << <<"tcp", "stop_acquisition">>,
       <<"rf", "rf_off">>, <<"lo", "rf_off">>,
       <<"tcp", "get_server_cpu_temp">>,
       <<"clk", "rf_off">> >>

\* errors a TCP helper can raise besides a dropped connection
TcpErrors(op) ==
    CASE op = "start_acquisition" -> {"RuntimeError"}
      [] op = "request_data" -> {"RuntimeError"}
      [] op = "get_server_cpu_temp" -> {"struct.error"}
      [] OTHER -> {}

(***************************************************************************)
(* PL configuration registers (PLConfig.MMIO_FIELD_DICT, PLInterface       *)
(* write_mmio / read_mmio).  The registers are WordBits wide instead of 32 *)
(* bits; the fields keep their order and adjacency, the topmost field of   *)
(* a register is narrower than in protocol.py.                             *)
(***************************************************************************)
\* PLConfig.FCLK
FCLK == 125

\* PLConfig.DMA_PACKET_LENGTH
DMA_PACKET_LENGTH == 12

\* 2 ** n
RECURSIVE Pow2(_)
Pow2(n) == IF n = 0 THEN 1 ELSE 2 * Pow2(n - 1)

\* largest register content
WordMax == Pow2(WordBits) - 1

\* a & b, a | b for non-negative integers
RECURSIVE BitAnd(_, _)
BitAnd(a, b) ==
    IF a = 0 \/ b = 0 THEN 0
    ELSE (a % 2) * (b % 2) + 2 * BitAnd(a \div 2, b \div 2)

BitOr(a, b) == a + b - BitAnd(a, b)

\* a & ~mask for a register content a
AndNot(a, mask) == BitAnd(a, WordMax - mask)

\* (value << bitshift) & mask, Python integers being two's complement of
\* unbounded width
ShiftAnd(value, bitshift, mask) ==
    BitAnd((value * Pow2(bitshift)) % Pow2(WordBits), mask)

\* (mask & -mask).bit_length() - 1: the number of trailing zeros of mask
RECURSIVE TrailingZeros(_)
TrailingZeros(mask) ==
    IF mask % 2 = 1 THEN 0 ELSE 1 + TrailingZeros(mask \div 2)

\* the four MMIO interfaces (PLConfig.MMIO_ADDRESSES_DICT)
Regs == {"DEAD_TIME", "TPP", "TRIG", "GENERAL"}

\* wire commands of the fields; scale is the fraction num / den
MMIO_FIELD_DICT ==
    [p |-> [num |-> FCLK, den |-> 1, mmio |-> "TPP", mask |-> WordMax],
     g |-> [num |-> FCLK, den |-> 1, mmio |-> "DEAD_TIME", mask |-> WordMax],
     t |-> [num |-> FCLK, den |-> 1, mmio |-> "TRIG",
            mask |-> Pow2(WordBits - 8) - 1],
     c |-> [num |-> 1, den |-> 1, mmio |-> "TRIG",
            mask |-> 15 * Pow2(WordBits - 8)],
     o |-> [num |-> 1, den |-> 1, mmio |-> "TRIG",
            mask |-> 15 * Pow2(WordBits - 4)],
     a |-> [num |-> 1, den |-> 1, mmio |-> "GENERAL",
            mask |-> (Pow2(WordBits - 16) - 1) * Pow2(16)],
     i |-> [num |-> 256, den |-> FCLK, mmio |-> "GENERAL",
            mask |-> 255 * Pow2(8)],
     r |-> [num |-> 1, den |-> 1, mmio |-> "GENERAL", mask |-> 1]]

Fields == DOMAIN MMIO_FIELD_DICT

\* TCPCommandProtocol.TCP_PL_CONFIG_CMDS: the fields a config command writes
TCP_PL_CONFIG_CMDS == Fields \ {"r"}

\* fields whose scale is an integer
IntegerScaled == {f \in Fields : MMIO_FIELD_DICT[f].den = 1}

Mask(f) == MMIO_FIELD_DICT[f].mask
Shift(f) == TrailingZeros(Mask(f))
\* mask >> bitshift, the largest content of the field
FieldMax(f) == Mask(f) \div Pow2(Shift(f))

\* round(n / d) of Python 3: to nearest, ties to even
Round(n, d) ==
    LET q == n \div d
        r == n % d
    IN  IF 2 * r < d THEN q
        ELSE IF 2 * r > d THEN q + 1
        ELSE IF q % 2 = 0 THEN q ELSE q + 1

\* write_mmio: `round(value * scalar)`
Scaled(f, value) ==
    Round(value * MMIO_FIELD_DICT[f].num, MMIO_FIELD_DICT[f].den)

\* write_mmio without the range test
WriteAccepted_noTest(f, value) == TRUE

\* write_mmio: the range test `value > (mask >> bitshift)`
WriteAccepted(f, value) == ~(Scaled(f, value) > FieldMax(f))

\* write_mmio that replaces the register by the shifted value
Merge_overwrite(f, value, curr_data) ==
    ShiftAnd(Scaled(f, value), Shift(f), Mask(f))

\* write_mmio: `(curr_data & ~mask) | (value << bitshift & mask)`
Merge(f, value, curr_data) ==
    BitOr(AndNot(curr_data, Mask(f)), ShiftAnd(Scaled(f, value), Shift(f), Mask(f)))

\* the registers after write_mmio(f, value) has returned
write_mmio(f, value, regs) ==
    [regs EXCEPT ![MMIO_FIELD_DICT[f].mmio] = Merge(f, value, @)]

\* `(curr_data & mask) >> bitshift`, the content of field f
FieldOf(f, regs) ==
    BitAnd(regs[MMIO_FIELD_DICT[f].mmio], Mask(f)) \div Pow2(Shift(f))

\* read_mmio: the field divided by the scale, as the fraction <<n, d>>
read_mmio(f, regs) ==
    <<FieldOf(f, regs) * MMIO_FIELD_DICT[f].den, MMIO_FIELD_DICT[f].num>>

\* the value read equals v
ReadEquals(rd, v) == rd[1] = v * rd[2]

\* the enable setter: ignored for `self._enabled and value`, else
\* write_mmio(RUN_PL, value)
EnableWrite(value, enabled, regs) ==
    IF enabled /\ value THEN regs
    ELSE write_mmio("r", IF value THEN 1 ELSE 0, regs)

\* verify_config without the test of tpp against the trigger length
verify_config_noTrig(regs) ==
    LET dead_time == regs["DEAD_TIME"]
        tpp == regs["TPP"]
        ppt == FieldOf("a", regs)
    IN  ppt > 0 /\ tpp > 0 /\ dead_time > 0 /\ tpp > dead_time

\* PLInterface.verify_config: TRUE when every assert passes
verify_config(regs) ==
    LET dead_time == regs["DEAD_TIME"]
        trigger_length == BitAnd(regs["TRIG"], Mask("t"))
        tpp == regs["TPP"]
        ppt == FieldOf("a", regs)
    IN  /\ ppt > 0
        /\ tpp > 0
        /\ dead_time > 0
        /\ tpp > dead_time
        /\ tpp > trigger_length

\* register contents with every register cleared
Cleared == [x \in Regs |-> 0]

\* arguments recorded for an operation other than send_trigger_config
NoArgs == <<-1, FALSE, FALSE, FALSE>>

\* the record kept of the last register operation
NoOp == [kind |-> "none", f |-> "none", value |-> 0, result |-> "none",
         before |-> Cleared, read |-> <<0, 1>>, args |-> NoArgs,
         strip |-> "none"]

\* register contents the server is started with: cleared, one valid
\* configuration (points per transfer 1, both trigger outputs configured)
\* and configurations that break one condition of verify_config each;
\* Contents takes dead time, trigger register, time per point and general
\* register
StartContents ==
    LET one == Pow2(Shift("a"))
        Contents(d, t, p, g) ==
            [x \in Regs |-> CASE x = "DEAD_TIME" -> d
                              [] x = "TRIG" -> t
                              [] x = "TPP" -> p
                              [] x = "GENERAL" -> g]
    IN
    {Cleared,
     Contents(1, 1 + Mask("c") + Mask("o"), 2, one),
     Contents(1, 1, 2, 0),
     Contents(1, 1, 0, one),
     Contents(0, 1, 2, one),
     Contents(2, 1, 2, one),
     Contents(1, 2, 2, one)}

\* TCPDataServer.__init__: PLInterface() idle, DataQueue() paused, the
\* producer thread started at the top of keep_fetching
ServerStart ==
    /\ fetch = FALSE
    /\ paused = TRUE
    /\ exit = FALSE
    /\ queue = <<>>
    /\ enable = FALSE
    /\ ppc = "while"
    /\ new = [kind |-> "unbound", pts |-> <<>>]
    /\ put_i = 0
    /\ dma_epoch = 0
    /\ fetch_func = "get_data"
    /\ hpc = "recv"
    /\ cmd = "none"
    /\ data_packet = <<>>
    /\ response = "none"
    /\ epoch = 0
    /\ pl_next = 1
    /\ sent = <<>>
    /\ full_hit = FALSE
    /\ ncmds = 0
    /\ nfetches = 0
    /\ listen_sock = "open"
    /\ stop_log = <<>>
    /\ server_waits_for_client = TRUE
    /\ accepts = 1

\* PLInterface.__init__ with the registers cleared
PLStart ==
    /\ mmios = Cleared
    /\ mm = NoOp
    /\ nops = 0
    /\ first_dma = FALSE
    /\ dma_output_buffer = DMA_PACKET_LENGTH + 4

\* attribute names tried with set_: a public field, a protected field, a
\* method, a property without setter, and a name the object does not have
Names == {"lo_power", "_deadtime", "run", "running"}
Keys == Names \cup {"bogus"}

\* the dataclass fields of SLVNAConfig among Names
ConfigFields == {"lo_power", "_deadtime"}

\* key.startswith("_")
Protected(key) == key \in {"_deadtime"}

\* SLVNAConfig as constructed, no setter called yet
ConfStart ==
    /\ attrs = [n \in Names |-> 0]
    /\ set_out = [key |-> "none", outcome |-> "none",
                  before |-> [n \in Names |-> 0], latch |-> FALSE]
    /\ nsets = 0

\* larger of two numbers
Max(a, b) == IF a > b THEN a ELSE b

\* timestep in units of the shortest dead time that is explored
Timesteps == {1, 2}
DeadTimes == {0, 2}
TrigLens == {0, 1}

\* the configurations _ready_checks can meet
Cfgs ==
    [required : BOOLEAN, timestep : Timesteps,
     rf_dead : DeadTimes, lo_dead : DeadTimes,
     rf_trig : TrigLens, lo_trig : TrigLens,
     rf_fsweep : BOOLEAN, lo_fsweep : BOOLEAN, clk_cw : BOOLEAN,
     deadtime : {0}, triglen : {0}]

\* a configuration that passes every check (APUASYN20 generators)
ReadyCfg ==
    [required |-> TRUE, timestep |-> 2, rf_dead |-> 0, lo_dead |-> 0,
     rf_trig |-> 1, lo_trig |-> 1, rf_fsweep |-> TRUE, lo_fsweep |-> TRUE,
     clk_cw |-> TRUE, deadtime |-> 0, triglen |-> 0]

\* _ready_checks without the tests of timestep
ReadyOutcome_noTimestep ==
    IF sweep_mode \notin KnownModes THEN "NotImplementedError"
    ELSE IF ~cfg.required THEN "ValueError"
    ELSE IF sweep_mode \in {"frequency", "power"} /\ ~(cfg.rf_fsweep /\ cfg.lo_fsweep)
         THEN "NotImplementedError"
    ELSE IF has_clk /\ ~cfg.clk_cw THEN "NotImplementedError"
    ELSE "ok"

\* _ready_checks after the test of self.running, in the order of its
\* statements: mode known, required fields, fsweep declared by RF and LO,
\* continuous_wave declared by the clock generator, timestep against dead
\* time and trigger length
ReadyOutcome ==
    IF sweep_mode \notin KnownModes THEN "NotImplementedError"
    ELSE IF ~cfg.required THEN "ValueError"
    ELSE IF sweep_mode \in {"frequency", "power"} /\ ~(cfg.rf_fsweep /\ cfg.lo_fsweep)
         THEN "NotImplementedError"
    ELSE IF has_clk /\ ~cfg.clk_cw THEN "NotImplementedError"
    ELSE IF cfg.timestep <= Max(cfg.rf_dead, cfg.lo_dead) THEN "ValueError"
    ELSE IF cfg.timestep <= Max(cfg.rf_trig, cfg.lo_trig) THEN "ValueError"
    ELSE "ok"

\* the generators are pinged once the mode is known and the fields are set
Pinged == sweep_mode \in KnownModes /\ cfg.required

\* _deadtime and _triglen are assigned once the capabilities are accepted
CapsAccepted ==
    /\ Pinged
    /\ sweep_mode \in {"frequency", "power"} => (cfg.rf_fsweep /\ cfg.lo_fsweep)
    /\ has_clk => cfg.clk_cw

InitClient ==
    /\ ServerStart
    /\ PLStart
    /\ ConfStart
    /\ config_valid = TRUE
    /\ running = FALSE
    /\ sweep_mode \in SweepModes
    /\ has_clk \in BOOLEAN
    /\ points \in 1..MaxPoints
    /\ gen_open = [g \in Gens |-> FALSE]
    /\ output = [g \in Gens |-> FALSE]
    /\ sock = [t \in Callers |-> "none"]
    /\ pc = [t \in Callers |-> "idle"]
    /\ idx = [t \in Callers |-> 0]
    /\ stack = [t \in Callers |-> <<>>]
    /\ exc = [t \in Callers |-> "none"]
    /\ log = [t \in Callers |-> <<>>]
    /\ points_done = [t \in Callers |-> 0]
    /\ data = [t \in Callers |-> [i \in 1..points |-> 0]]
    /\ writes = [t \in Callers |-> [i \in 1..points |-> 0]]
    /\ recvd = [t \in Callers |-> 0]
    /\ faults = TRUE
    /\ cfg = ReadyCfg

\* a caller invokes run()
run_call(t) ==
    /\ pc[t] = "idle"
    /\ pc' = [pc EXCEPT ![t] = "ready"]
    /\ UNCHANGED <<cfg, running, sweep_mode, has_clk, points, gen_open, output, sock,
                   idx, stack, exc, log, points_done, data, writes, recvd, faults>>

\* _ready_checks: the test of self.running
ready_checks_running(t) ==
    /\ pc[t] = "ready"
    /\ IF running
       THEN /\ exc' = [exc EXCEPT ![t] = "ValueError"]
            /\ pc' = [pc EXCEPT ![t] = "raised"]
       ELSE /\ pc' = [pc EXCEPT ![t] = "ready_rest"]
            /\ exc' = exc
    /\ UNCHANGED <<cfg, running, sweep_mode, has_clk, points, gen_open, output, sock,
                   idx, stack, log, points_done, data, writes, recvd, faults>>

\* _ready_checks after the test of self.running: mode, required fields,
\* ping of every generator, capabilities, timestep
ready_checks_rest(t) ==
    /\ pc[t] = "ready_rest"
    /\ log' = [log EXCEPT ![t] =
                 IF Pinged
                 THEN @ \o << <<"rf", "ping">>, <<"lo", "ping">> >>
                        \o (IF has_clk THEN << <<"clk", "ping">> >> ELSE <<>>)
                 ELSE @]
    /\ cfg' = IF CapsAccepted
              THEN [cfg EXCEPT !.deadtime = Max(cfg.rf_dead, cfg.lo_dead),
                               !.triglen = Max(cfg.rf_trig, cfg.lo_trig)]
              ELSE cfg
    /\ IF ReadyOutcome = "ok"
       THEN pc' = [pc EXCEPT ![t] = "set"] /\ exc' = exc
       ELSE /\ exc' = [exc EXCEPT ![t] = ReadyOutcome]
            /\ pc' = [pc EXCEPT ![t] = "raised"]
    /\ UNCHANGED <<running, sweep_mode, has_clk, points, gen_open, output, sock,
                   idx, stack, points_done, data, writes, recvd, faults>>

run_set_late(t) ==
    /\ pc[t] = "set"
    /\ pc' = [pc EXCEPT ![t] =
                IF sweep_mode = "frequency" THEN "fsweep" ELSE "not_impl"]
    /\ UNCHANGED <<cfg, running, log, sweep_mode, has_clk, points, gen_open, output,
                   sock, idx, stack, exc, points_done, data, writes, recvd, faults>>

\* run: self._running.set() and the dispatch on sweep_mode
run_set(t) ==
    /\ pc[t] = "set"
    /\ running' = TRUE
    /\ log' = [log EXCEPT ![t] = Append(@, <<"latch", "set">>)]
    /\ pc' = [pc EXCEPT ![t] =
                IF sweep_mode = "frequency" THEN "fsweep" ELSE "not_impl"]
    /\ UNCHANGED <<cfg, sweep_mode, has_clk, points, gen_open, output, sock,
                   idx, stack, exc, points_done, data, writes, recvd, faults>>

\* the else branch of run without self._running.clear()
run_not_implemented_noClear(t) ==
    /\ pc[t] = "not_impl"
    /\ exc' = [exc EXCEPT ![t] = "NotImplementedError"]
    /\ pc' = [pc EXCEPT ![t] = "raised"]
    /\ UNCHANGED <<cfg, running, log, sweep_mode, has_clk, points, gen_open,
                   output, sock, idx, stack, points_done, data, writes, recvd,
                   faults>>

\* run: the else branch, clear the latch and raise NotImplementedError
run_not_implemented(t) ==
    /\ pc[t] = "not_impl"
    /\ running' = FALSE
    /\ log' = [log EXCEPT ![t] = Append(@, <<"latch", "clear">>)]
    /\ exc' = [exc EXCEPT ![t] = "NotImplementedError"]
    /\ pc' = [pc EXCEPT ![t] = "raised"]
    /\ UNCHANGED <<cfg, sweep_mode, has_clk, points, gen_open, output, sock,
                   idx, stack, points_done, data, writes, recvd, faults>>

\* _fsweep: the test of gen_clk
fsweep_begin(t) ==
    /\ pc[t] = "fsweep"
    /\ IF has_clk
       THEN /\ pc' = [pc EXCEPT ![t] = "enter"]
            /\ idx' = [idx EXCEPT ![t] = 1]
            /\ exc' = exc
       ELSE /\ exc' = [exc EXCEPT ![t] = "NotImplementedError"]
            /\ pc' = [pc EXCEPT ![t] = "raised"]
            /\ idx' = idx
    /\ UNCHANGED <<cfg, running, sweep_mode, has_clk, points, gen_open, output, sock,
                   stack, log, points_done, data, writes, recvd, faults>>

\* __enter__ of the next generator of `with self.gen_rf, self.gen_lo,
\* self.gen_clk`: APUASYN20Controller.start
gen_enter(t) ==
    /\ pc[t] = "enter"
    /\ LET g == GenOrder[idx[t]]
           entered ==
               /\ stack' = [stack EXCEPT ![t] = Append(@, g)]
               /\ exc' = exc
               /\ IF idx[t] = Len(GenOrder)
                  THEN pc' = [pc EXCEPT ![t] = "connect"] /\ idx' = [idx EXCEPT ![t] = 0]
                  ELSE pc' = pc /\ idx' = [idx EXCEPT ![t] = @ + 1]
       IN IF gen_open[g]
          THEN \* "Already initialised connection": start() returns at once
               /\ entered
               /\ UNCHANGED <<gen_open, output, log, faults>>
          ELSE \/ \* open_resource, *RST, *CLS, *IDN?, configure_trigger
                  /\ entered
                  /\ gen_open' = [gen_open EXCEPT ![g] = TRUE]
                  /\ output' = [output EXCEPT ![g] = FALSE]
                  /\ log' = [log EXCEPT ![t] = Append(@, <<g, "open">>)]
                  /\ faults' = faults
               \/ \* open_resource fails: the with statement unwinds
                  /\ faults
                  /\ faults' = FALSE
                  /\ exc' = [exc EXCEPT ![t] = "VisaError"]
                  /\ pc' = [pc EXCEPT ![t] = "unwind"]
                  /\ UNCHANGED <<gen_open, output, log, stack, idx>>
    /\ UNCHANGED <<cfg, running, sweep_mode, has_clk, points, sock,
                   points_done, data, writes, recvd>>

\* TCPClient(host, port): create_connection and _reset_trigger_config in
\* __init__, then __enter__
tcp_connect(t) ==
    /\ pc[t] = "connect"
    /\ \/ /\ sock' = [sock EXCEPT ![t] = "open"]
          /\ stack' = [stack EXCEPT ![t] = Append(@, "tcp")]
          /\ log' = [log EXCEPT ![t] =
                       @ \o << <<"tcp", "connect">>,
                               <<"tcp", "reset_trigger_config_0">>,
                               <<"tcp", "reset_trigger_config_1">> >>]
          /\ pc' = [pc EXCEPT ![t] = "pre"]
          /\ idx' = [idx EXCEPT ![t] = 1]
          /\ UNCHANGED <<exc, faults>>
       \/ \* the connection drops in _reset_trigger_config: __init__ raises,
          \* the with block is never entered and nothing closes the socket
          /\ faults
          /\ faults' = FALSE
          /\ sock' = [sock EXCEPT ![t] = "open"]
          /\ log' = [log EXCEPT ![t] = Append(@, <<"tcp", "connect">>)]
          /\ exc' = [exc EXCEPT ![t] = "ConnectionResetError"]
          /\ pc' = [pc EXCEPT ![t] = "unwind"]
          /\ UNCHANGED <<stack, idx>>
       \/ \* connection refused or timed out
          /\ faults
          /\ faults' = FALSE
          /\ exc' = [exc EXCEPT ![t] = "ConnectionError"]
          /\ pc' = [pc EXCEPT ![t] = "unwind"]
          /\ UNCHANGED <<sock, stack, log, idx>>
    /\ UNCHANGED <<cfg, running, sweep_mode, has_clk, points, gen_open, output,
                   points_done, data, writes, recvd>>

\* one statement of a straight-line block of _fsweep: a generator call
\* (with _check_conn) or a TCP helper (send_receive)
fsweep_block(t, at, Block, after) ==
    /\ pc[t] = at
    /\ LET tgt == Block[idx[t]][1]
           op == Block[idx[t]][2]
           done ==
               /\ UNCHANGED <<exc, faults>>
               /\ log' = [log EXCEPT ![t] = Append(@, <<tgt, op>>)]
               /\ IF idx[t] = Len(Block)
                  THEN pc' = [pc EXCEPT ![t] = after] /\ idx' = [idx EXCEPT ![t] = 0]
                  ELSE pc' = pc /\ idx' = [idx EXCEPT ![t] = @ + 1]
           raise(e) ==
               /\ exc' = [exc EXCEPT ![t] = e]
               /\ pc' = [pc EXCEPT ![t] = "unwind"]
               /\ UNCHANGED <<idx, log>>
           fault(e) == faults /\ faults' = FALSE /\ raise(e)
       IN IF tgt = "tcp"
          THEN /\ \/ done
                  \/ \E e \in TcpErrors(op) \cup {"ConnectionResetError"} : fault(e)
               /\ UNCHANGED output
          ELSE IF ~gen_open[tgt]
               THEN \* _check_conn
                    raise("ConnectionError") /\ UNCHANGED <<output, faults>>
               ELSE \/ /\ done
                       /\ output' = [output EXCEPT ![tgt] =
                                       CASE op = "rf_on" -> TRUE
                                         [] op = "rf_off" -> FALSE
                                         [] OTHER -> @]
                    \/ fault("VisaError") /\ UNCHANGED output
    /\ UNCHANGED <<cfg, running, sweep_mode, has_clk, points, gen_open, sock, stack,
                   points_done, data, writes, recvd>>

fsweep_pre(t) == fsweep_block(t, "pre", PreLoop, "loop")

fsweep_post(t) == fsweep_block(t, "post", PostLoop, "unwind")

ClipReceived_noClip(points_received, points_todo) == points_received

\* points_received after `if points_received > points_todo`
ClipReceived(points_received, points_todo) ==
    IF points_received > points_todo THEN points_todo ELSE points_received

\* one iteration of the collection loop: request_data and the copy into data
collect_request(t) ==
    /\ pc[t] = "loop"
    /\ points_done[t] < points
    /\ \/ \E k \in 1..POINTS_PER_PACKET :
            LET voltages == [j \in 1..k |-> recvd[t] + j]
                points_todo == points - points_done[t]
                points_received == ClipReceived(k, points_todo)
                kept == SubSeq(voltages, 1, points_received)
                rows == (points_done[t] + 1)..(points_done[t] + points_received)
            IN /\ recvd' = [recvd EXCEPT ![t] = @ + k]
               /\ data' = [data EXCEPT ![t] =
                             [i \in DOMAIN @ |->
                                IF i \in rows THEN kept[i - points_done[t]] ELSE @[i]]]
               /\ writes' = [writes EXCEPT ![t] =
                               [i \in DOMAIN @ |->
                                  IF i \in rows THEN @[i] + 1 ELSE @[i]]]
               /\ points_done' = [points_done EXCEPT ![t] = @ + points_received]
               /\ UNCHANGED <<pc, exc, log, faults>>
       \/ \E e \in TcpErrors("request_data") \cup {"ConnectionResetError"} :
            /\ faults
            /\ faults' = FALSE
            /\ exc' = [exc EXCEPT ![t] = e]
            /\ pc' = [pc EXCEPT ![t] = "unwind"]
            /\ UNCHANGED <<recvd, data, writes, points_done, log>>
    /\ UNCHANGED <<cfg, running, sweep_mode, has_clk, points, gen_open, output, sock,
                   idx, stack>>

\* the loop condition fails: continue after the loop
collect_exit(t) ==
    /\ pc[t] = "loop"
    /\ ~(points_done[t] < points)
    /\ pc' = [pc EXCEPT ![t] = "post"]
    /\ idx' = [idx EXCEPT ![t] = 1]
    /\ UNCHANGED <<cfg, running, sweep_mode, has_clk, points, gen_open, output, sock,
                   stack, exc, log, points_done, data, writes, recvd, faults>>

\* leaving a with block: __exit__ of the innermost open scope.
\* TCPClient.__exit__ prints ' '.join(exc_val.args) before socket.close();
\* APUASYN20Controller.__exit__ is stop(): rf_off, close, gen = None.
with_exit(t) ==
    /\ pc[t] = "unwind"
    /\ stack[t] # <<>>
    /\ LET top == Last(stack[t])
       IN /\ stack' = [stack EXCEPT ![t] = Front(@)]
          /\ IF top = "tcp"
             THEN IF exc[t] # "none" /\ ~StrArgs(exc[t])
                  THEN \* str.join raises TypeError inside __exit__
                       /\ exc' = [exc EXCEPT ![t] = "TypeError"]
                       /\ UNCHANGED <<sock, log, gen_open, output>>
                  ELSE /\ sock' = [sock EXCEPT ![t] = "closed"]
                       /\ log' = [log EXCEPT ![t] = Append(@, <<"tcp", "close">>)]
                       /\ UNCHANGED <<exc, gen_open, output>>
             ELSE IF gen_open[top]
                  THEN /\ gen_open' = [gen_open EXCEPT ![top] = FALSE]
                       /\ output' = [output EXCEPT ![top] = FALSE]
                       /\ log' = [log EXCEPT ![t] =
                                    @ \o << <<top, "rf_off">>, <<top, "close">> >>]
                       /\ UNCHANGED <<exc, sock>>
                  ELSE UNCHANGED <<exc, sock, log, gen_open, output>>
    /\ UNCHANGED <<cfg, running, sweep_mode, has_clk, points, pc, idx,
                   points_done, data, writes, recvd, faults>>

\* every scope is left with an exception in flight: it propagates out of
\* _fsweep and out of run() (run has no handler)
fsweep_raise(t) ==
    /\ pc[t] = "unwind"
    /\ stack[t] = <<>>
    /\ exc[t] # "none"
    /\ pc' = [pc EXCEPT ![t] = "raised"]
    /\ UNCHANGED <<cfg, running, sweep_mode, has_clk, points, gen_open, output, sock,
                   idx, stack, exc, log, points_done, data, writes, recvd, faults>>

\* _fsweep returns normally; run: self._running.clear() and return
run_clear(t) ==
    /\ pc[t] = "unwind"
    /\ stack[t] = <<>>
    /\ exc[t] = "none"
    /\ running' = FALSE
    /\ log' = [log EXCEPT ![t] = Append(@, <<"latch", "clear">>)]
    /\ pc' = [pc EXCEPT ![t] = "returned"]
    /\ UNCHANGED <<cfg, sweep_mode, has_clk, points, gen_open, output, sock,
                   idx, stack, exc, points_done, data, writes, recvd, faults>>

\* one step of run() on the calling thread t
run(t) ==
    \/ run_call(t)
    \/ ready_checks_running(t)
    \/ ready_checks_rest(t)
    \/ run_set(t)
    \/ run_not_implemented(t)
    \/ fsweep_begin(t)
    \/ gen_enter(t)
    \/ tcp_connect(t)
    \/ fsweep_pre(t)
    \/ collect_request(t)
    \/ collect_exit(t)
    \/ fsweep_post(t)
    \/ with_exit(t)
    \/ fsweep_raise(t)
    \/ run_clear(t)

\* test_api_fsweep: one thread calls run()
NextClient == run("t1") /\ UNCHANGED <<serverVars, plVars, confVars>>

\* test_running: run() in a background thread and on the calling thread
NextRace ==
    (\E t \in Callers : run(t)) /\ UNCHANGED <<serverVars, plVars, confVars>>

SpecClient == InitClient /\ [][NextClient]_vars

SpecRace == InitClient /\ [][NextRace]_vars

(***************************************************************************)
(* Properties of the orchestrator.                                         *)
(***************************************************************************)
\* positions of run() after the self.running test passed and before run ends
PastReady == {"ready_rest", "set", "not_impl", "fsweep", "enter", "connect",
              "pre", "loop", "post", "unwind"}

\* operations of caller t on generators and on the TCP connection
DeviceOps(t) == SelectSeq(log[t], LAMBDA e : e[1] # "latch")

\* C1: of two simultaneous run() calls on one orchestrator at most one is
\* past the readiness check at any time; the other one ends with ValueError
\* and has issued no generator and no TCP operation.
C1_SecondRunRejected ==
    /\ Cardinality({t \in Callers : pc[t] \in PastReady}) <= 1
    /\ \A t \in Callers :
         (pc[t] = "raised" /\ exc[t] = "ValueError") => DeviceOps(t) = <<>>

\* C2: the write cursor of the collection loop never exceeds N, row i holds
\* the i-th point received and was written exactly once, rows at or beyond
\* the cursor are unwritten, and after the loop the cursor equals N.
C2_CollectExactlyN ==
    \A t \in Callers :
        /\ points_done[t] <= points
        /\ \A i \in 1..points :
             IF i <= points_done[t]
             THEN data[t][i] = i /\ writes[t][i] = 1
             ELSE writes[t][i] = 0
        /\ (pc[t] \in {"post", "returned"} \/ (pc[t] = "unwind" /\ exc[t] = "none"))
             => points_done[t] = points

\* a sweep of several packets left the loop after discarding an overrun
C2_Witness ==
    \E t \in Callers :
        /\ pc[t] = "post"
        /\ points_done[t] = points
        /\ points > POINTS_PER_PACKET
        /\ recvd[t] > points

\* C5: in the operations of every run(), each rf_on comes after the latch
\* was set, and whenever the run clears the latch every generator it
\* switched on has been switched off in between.
C5_LatchBracketsOutputs ==
    \A t \in Callers :
        LET L == log[t] IN
        /\ \A i \in 1..Len(L) :
             L[i][2] = "rf_on" => \E j \in 1..(i - 1) : L[j] = <<"latch", "set">>
        /\ \A j \in 1..Len(L) :
             L[j] = <<"latch", "clear">> =>
               \A i \in 1..(j - 1) :
                 L[i][2] = "rf_on" =>
                   \E k \in (i + 1)..(j - 1) : L[k] = <<L[i][1], "rf_off">>

\* a run switched all three outputs on, finished and cleared the latch
C5_Witness ==
    \E t \in Callers :
        /\ pc[t] = "returned"
        /\ Last(log[t]) = <<"latch", "clear">>
        /\ \A g \in Gens : \E i \in 1..Len(log[t]) : log[t][i] = <<g, "rf_on">>

\* scopes acquired / released by caller t, in order
Acquired(t) == SelectSeq(log[t], LAMBDA e : e[2] \in {"open", "connect"})
Released(t) == SelectSeq(log[t], LAMBDA e : e[2] = "close")

\* C6: when the sweep has ended (return or exception), the scopes that were
\* acquired have all been released, in reverse order of acquisition, and
\* nothing else was released.
C6_ScopesReleasedInReverse ==
    \A t \in Callers :
        pc[t] \in {"raised", "returned"} =>
            /\ Len(Released(t)) = Len(Acquired(t))
            /\ \A i \in 1..Len(Acquired(t)) :
                 Released(t)[Len(Acquired(t)) + 1 - i][1] = Acquired(t)[i][1]

\* C7: when an error reaches the caller of run() after an rf_on, every
\* generator that was switched on got an rf_off afterwards and the TCP
\* connection was closed.
C7_ErrorAfterOnCleansUp ==
    \A t \in Callers :
        LET L == log[t] IN
        (pc[t] = "raised" /\ \E i \in 1..Len(L) : L[i][2] = "rf_on") =>
            /\ \A i \in 1..Len(L) :
                 L[i][2] = "rf_on" =>
                   \E k \in (i + 1)..Len(L) : L[k] = <<L[i][1], "rf_off">>
            /\ sock[t] # "open"

(***************************************************************************)
(* The generic setter SLVNAConfig.set_, called from the user's thread      *)
(* while run() may be in progress on another.                              *)
(***************************************************************************)
\* outcome of set_(key=value): setattr for an existing attribute that does
\* not start with `_` (AttributeError for the property), else ValueError
SetOutcome(key) ==
    IF key \in Names /\ ~Protected(key)
    THEN IF key = "running" THEN "AttributeError" ELSE "ok"
    ELSE "ValueError"

\* SLVNAConfig.set_ with one keyword argument
set_(key, value) ==
    /\ nsets < MaxSets
    /\ nsets' = nsets + 1
    /\ set_out' = [key |-> key, outcome |-> SetOutcome(key),
                   before |-> attrs, latch |-> running]
    /\ attrs' = IF SetOutcome(key) = "ok"
                THEN [attrs EXCEPT ![key] = value]
                ELSE attrs
    /\ UNCHANGED <<cfg, running, sweep_mode, has_clk, points, gen_open, output, sock,
                   pc, idx, stack, exc, log, points_done, data, writes, recvd,
                   faults, serverVars, plVars>>

\* values passed to set_
SetValues == {1, 2}

\* a sweep on one thread, setter calls on another
NextConf ==
    \/ run("t1") /\ UNCHANGED <<serverVars, plVars, confVars>>
    \/ \E key \in Keys : \E value \in SetValues : set_(key, value)

SpecConf == InitClient /\ [][NextConf]_vars

\* C17: a call of set_ with a key that starts with `_` or that is not a
\* configuration field ends with ValueError and changes no attribute.
C17_BadKeyRejected ==
    (set_out.key \in Keys /\ (Protected(set_out.key)
                              \/ set_out.key \notin ConfigFields)) =>
        /\ set_out.outcome = "ValueError"
        /\ attrs = set_out.before

\* C18: while the running latch is set no configuration field changes.
C18_ConfigFrozenWhileRunning ==
    [][running => \A n \in ConfigFields : attrs'[n] = attrs[n]]_vars

(***************************************************************************)
(* Server side: the producer thread (DataQueue.keep_fetching).             *)
(***************************************************************************)
\* positions at which keep_fetching is no longer running
Stopped == {"done", "crashed"}

\* `while not self.exit.is_set()`
kf_while ==
    /\ ppc = "while"
    /\ ppc' = IF exit THEN "final" ELSE "if_fetch"
    /\ UNCHANGED <<server_waits_for_client, accepts, stop_log, fetch, paused, exit, queue, enable, config_valid, new, put_i,
                   dma_epoch, fetch_func, hpc, cmd, data_packet, response, epoch, pl_next,
                   sent, full_hit, ncmds, nfetches, listen_sock, plVars, clientVars>>

\* `if not self.fetch.is_set()`
kf_if_fetch ==
    /\ ppc = "if_fetch"
    /\ ppc' = IF fetch THEN "fetch" ELSE "set_paused"
    /\ UNCHANGED <<server_waits_for_client, accepts, stop_log, fetch, paused, exit, queue, enable, config_valid, new, put_i,
                   dma_epoch, fetch_func, hpc, cmd, data_packet, response, epoch, pl_next,
                   sent, full_hit, ncmds, nfetches, listen_sock, plVars, clientVars>>

\* kf_set_paused that goes on to the wait loop without setting paused
kf_set_paused_noSet ==
    /\ ppc = "set_paused"
    /\ ppc' = "wait"
    /\ UNCHANGED <<paused, server_waits_for_client, accepts, stop_log, fetch, exit, queue, enable, config_valid, new, put_i,
                   dma_epoch, fetch_func, hpc, cmd, data_packet, response, epoch, pl_next,
                   sent, full_hit, ncmds, nfetches, listen_sock, plVars, clientVars>>

\* `self.paused.set()` on observing the pause request
kf_set_paused ==
    /\ ppc = "set_paused"
    /\ paused' = TRUE
    /\ ppc' = "wait"
    /\ UNCHANGED <<server_waits_for_client, accepts, stop_log, fetch, exit, queue, enable, config_valid, new, put_i,
                   dma_epoch, fetch_func, hpc, cmd, data_packet, response, epoch, pl_next,
                   sent, full_hit, ncmds, nfetches, listen_sock, plVars, clientVars>>

\* the wait loop ends once fetch or exit is set
kf_wait ==
    /\ ppc = "wait"
    /\ fetch \/ exit
    /\ ppc' = "after_wait"
    /\ UNCHANGED <<server_waits_for_client, accepts, stop_log, fetch, paused, exit, queue, enable, config_valid, new, put_i,
                   dma_epoch, fetch_func, hpc, cmd, data_packet, response, epoch, pl_next,
                   sent, full_hit, ncmds, nfetches, listen_sock, plVars, clientVars>>

\* `if self.exit.is_set(): break`
kf_after_wait ==
    /\ ppc = "after_wait"
    /\ ppc' = IF exit THEN "final" ELSE "clear_paused"
    /\ UNCHANGED <<server_waits_for_client, accepts, stop_log, fetch, paused, exit, queue, enable, config_valid, new, put_i,
                   dma_epoch, fetch_func, hpc, cmd, data_packet, response, epoch, pl_next,
                   sent, full_hit, ncmds, nfetches, listen_sock, plVars, clientVars>>

\* `self.paused.clear()`
kf_clear_paused ==
    /\ ppc = "clear_paused"
    /\ paused' = FALSE
    /\ ppc' = "fetch"
    /\ UNCHANGED <<server_waits_for_client, accepts, stop_log, fetch, exit, queue, enable, config_valid, new, put_i,
                   dma_epoch, fetch_func, hpc, cmd, data_packet, response, epoch, pl_next,
                   sent, full_hit, ncmds, nfetches, listen_sock, plVars, clientVars>>

\* `new = fetch_func()`, first half: PLInterface.get_data tests enable and
\* raises DMANotAllowed (caught, `new` keeps its old binding) or clears
\* _first_dma and starts the DMA transfer
kf_fetch ==
    /\ ppc = "fetch"
    /\ IF fetch_func = "test_data_func"
       THEN /\ ppc' = "dma"
            /\ UNCHANGED <<nfetches, dma_epoch, first_dma>>
       ELSE IF enable
       THEN /\ nfetches < MaxFetches
            /\ nfetches' = nfetches + 1
            /\ dma_epoch' = epoch
            /\ first_dma' = FALSE
            /\ ppc' = "dma"
       ELSE /\ ppc' = "check_len"
            /\ UNCHANGED <<nfetches, dma_epoch, first_dma>>
    /\ UNCHANGED <<fetch_func, server_waits_for_client, accepts, stop_log, fetch, paused, exit, queue, enable, config_valid, new, put_i,
                   hpc, cmd, data_packet, response, epoch, pl_next,
                   sent, full_hit, ncmds, listen_sock, mmios, mm, nops, dma_output_buffer, clientVars>>

\* test_queue: `test_data_func = lambda: (-1., -.5, .5, 1)`, one point
test_data == << <<0, 0>> >>

\* the block of points the PL hands over in one transfer
Block(e, first) == [j \in 1..PointsPerTransfer |-> <<e, first + j - 1>>]

\* `new = fetch_func()`, second half: the transfer completes and the block
\* is converted, or the transfer fails with RuntimeError (DMANotAllowed,
\* caught), or fetch_func fails otherwise or returns a partial point
kf_dma ==
    /\ ppc = "dma"
    /\ \/ /\ fetch_func = "test_data_func"
          /\ new' = [kind |-> "block", pts |-> test_data]
          /\ ppc' = "check_len"
          /\ UNCHANGED pl_next
       \/ /\ fetch_func = "get_data"
          /\ new' = [kind |-> "block", pts |-> Block(dma_epoch, pl_next)]
          /\ pl_next' = pl_next + PointsPerTransfer
          /\ ppc' = "check_len"
       \/ /\ fetch_func = "get_data"
          /\ ppc' = "check_len"
          /\ UNCHANGED <<new, pl_next>>
       \/ /\ fetch_func = "get_data"
          /\ ppc' = "crashed"
          /\ UNCHANGED <<new, pl_next>>
       \/ /\ fetch_func = "get_data"
          /\ new' = [kind |-> "partial", pts |-> <<>>]
          /\ ppc' = "check_len"
          /\ UNCHANGED pl_next
    /\ UNCHANGED <<server_waits_for_client, accepts, stop_log, fetch, paused, exit, queue, enable, config_valid, put_i,
                   dma_epoch, fetch_func, hpc, cmd, data_packet, response, epoch,
                   sent, full_hit, ncmds, nfetches, listen_sock, plVars, clientVars>>

\* `if len(new) % 4 != 0: raise ValueError`; len(new) itself raises
\* UnboundLocalError when no block was ever assigned
kf_check_len ==
    /\ ppc = "check_len"
    /\ IF new.kind \in {"unbound", "partial"}
       THEN ppc' = "crashed" /\ put_i' = put_i
       ELSE put_i' = 1 /\ ppc' = "put"
    /\ UNCHANGED <<server_waits_for_client, accepts, stop_log, fetch, paused, exit, queue, enable, config_valid, new,
                   dma_epoch, fetch_func, hpc, cmd, data_packet, response, epoch, pl_next,
                   sent, full_hit, ncmds, nfetches, listen_sock, plVars, clientVars>>

\* after the body of the for loop: next point, or back to the while
AfterPut == IF put_i = Len(new.pts) THEN "while" ELSE "put"

\* one iteration of the for loop: put_nowait of the next point, or Full
kf_put ==
    /\ ppc = "put"
    /\ IF Len(queue) < MAXSIZE
       THEN /\ queue' = Append(queue, new.pts[put_i])
            /\ put_i' = put_i + 1
            /\ ppc' = AfterPut
            /\ full_hit' = full_hit
       ELSE /\ ppc' = "full_clear"
            /\ full_hit' = TRUE
            /\ UNCHANGED <<queue, put_i>>
    /\ UNCHANGED <<server_waits_for_client, accepts, stop_log, fetch, paused, exit, enable, config_valid, new,
                   dma_epoch, fetch_func, hpc, cmd, data_packet, response, epoch, pl_next,
                   sent, ncmds, nfetches, listen_sock, plVars, clientVars>>

\* except Full: `self.fetch.clear()`
kf_full_clear ==
    /\ ppc = "full_clear"
    /\ fetch' = FALSE
    /\ ppc' = "full_pause"
    /\ UNCHANGED <<server_waits_for_client, accepts, stop_log, paused, exit, queue, enable, config_valid, new, put_i,
                   dma_epoch, fetch_func, hpc, cmd, data_packet, response, epoch, pl_next,
                   sent, full_hit, ncmds, nfetches, listen_sock, plVars, clientVars>>

\* except Full: `self.paused.set()`, then the for loop goes on
kf_full_pause ==
    /\ ppc = "full_pause"
    /\ paused' = TRUE
    /\ put_i' = put_i + 1
    /\ ppc' = AfterPut
    /\ UNCHANGED <<server_waits_for_client, accepts, stop_log, fetch, exit, queue, enable, config_valid, new,
                   dma_epoch, fetch_func, hpc, cmd, data_packet, response, epoch, pl_next,
                   sent, full_hit, ncmds, nfetches, listen_sock, plVars, clientVars>>

\* after the while loop: `self.paused.set()` and return
kf_final ==
    /\ ppc = "final"
    /\ paused' = TRUE
    /\ ppc' = "done"
    /\ UNCHANGED <<server_waits_for_client, accepts, stop_log, fetch, exit, queue, enable, config_valid, new, put_i,
                   dma_epoch, fetch_func, hpc, cmd, data_packet, response, epoch, pl_next,
                   sent, full_hit, ncmds, nfetches, listen_sock, plVars, clientVars>>

keep_fetching ==
    \/ kf_while
    \/ kf_if_fetch
    \/ kf_set_paused
    \/ kf_wait
    \/ kf_after_wait
    \/ kf_clear_paused
    \/ kf_fetch
    \/ kf_dma
    \/ kf_check_len
    \/ kf_put
    \/ kf_full_clear
    \/ kf_full_pause
    \/ kf_final

(***************************************************************************)
(* Server side: the command handler on the main thread                     *)
(* (TCPDataServer.determine_response and what it calls).                   *)
(***************************************************************************)
\* commands of the connected client: data request, run-PL 1, run-PL 0,
\* stop server
Commands == {"d", "r1", "r0", "!"}

\* commands the server does not recognise: unknown first byte, config and
\* run-PL token without argument, non-integer config argument, run-PL
\* argument other than 0 or 1
Unrecognised == {"x1", "p", "r", "pz", "r2"}

\* the received text as <<first byte, rest>>
Wire(c) ==
    CASE c = "d" -> <<"d", "">>
      [] c = "r1" -> <<"r", "1">>
      [] c = "r0" -> <<"r", "0">>
      [] c = "!" -> <<"!", "">>
      [] c = "x1" -> <<"x", "1">>
      [] c = "p" -> <<"p", "">>
      [] c = "r" -> <<"r", "">>
      [] c = "pz" -> <<"p", "z">>
      [] c = "r2" -> <<"r", "2">>

\* int(data[1:]) succeeds
IsInt(arg) == arg \in {"0", "1", "2"}

\* control_on_off without the test of its argument
ControlOnOff_noTest(arg) ==
    IF arg = "1" THEN "start_dma" ELSE "pause_dma"

\* control_on_off: ValueError unless the argument is '0' or '1'
ControlOnOff(arg) ==
    IF arg \notin {"0", "1"} THEN "ValueError"
    ELSE IF arg = "1" THEN "start_dma" ELSE "pause_dma"

\* determine_response: what the received text is dispatched to; an
\* exception is turned into RESPONSE_ERR by serve_one_client
Dispatch(received) ==
    IF received = <<"d", "">> THEN "get_data"
    ELSE IF received = <<"q", "">> THEN "qsize"
    ELSE IF received = <<"T", "">> THEN "cpu_temp"
    ELSE IF received[1] = "!" THEN "stop"
    ELSE IF received[2] = "" THEN "no_argument"
    ELSE IF received[1] = "r" THEN ControlOnOff(received[2])
    ELSE IF received[1] \in Fields
         THEN IF IsInt(received[2]) THEN "change_config" ELSE "ValueError"
    ELSE "unknown"

\* conn.recv and the dispatch of determine_response, up to the first
\* access to state shared with the producer
h_recv ==
    /\ hpc = "recv"
    /\ ncmds < MaxCommands
    /\ ncmds' = ncmds + 1
    /\ server_waits_for_client' = FALSE
    /\ \E c \in Commands \cup Unrecognised :
         /\ cmd' = c
         /\ CASE Dispatch(Wire(c)) = "get_data" ->
                   \* get_data: `if not self.pl_interface.enable`
                   IF enable
                   THEN /\ data_packet' = <<>>
                        /\ hpc' = "get"
                        /\ UNCHANGED <<response, listen_sock, stop_log>>
                   ELSE /\ response' = "ERR"
                        /\ UNCHANGED <<hpc, data_packet, listen_sock, stop_log>>
              [] Dispatch(Wire(c)) = "start_dma" ->
                   \* start_dma: verify_config, PLError gives RESPONSE_ERR
                   IF verify_config(mmios)
                   THEN /\ hpc' = "pause_clear"
                        /\ UNCHANGED <<response, data_packet, listen_sock,
                                       stop_log>>
                   ELSE /\ response' = "ERR"
                        /\ UNCHANGED <<hpc, data_packet, listen_sock, stop_log>>
              [] Dispatch(Wire(c)) = "pause_dma" ->
                   /\ hpc' = "pause_clear"
                   /\ UNCHANGED <<response, data_packet, listen_sock, stop_log>>
              [] Dispatch(Wire(c)) = "stop" ->
                   \* stop: `self.sock.close()`
                   /\ listen_sock' = "closed"
                   /\ stop_log' = Append(stop_log, "sock.close")
                   /\ hpc' = "stop_exit"
                   /\ UNCHANGED <<response, data_packet>>
              [] OTHER ->
                   \* no argument, ValueError or unknown command:
                   \* RESPONSE_ERR is sent and the inner loop goes on
                   /\ response' = "ERR"
                   /\ UNCHANGED <<hpc, data_packet, listen_sock, stop_log>>
    /\ UNCHANGED <<accepts, fetch, paused, exit, queue, enable, config_valid, ppc, new,
                   put_i, dma_epoch, fetch_func, epoch, pl_next, sent, full_hit, nfetches,
                   plVars, clientVars>>

\* h_get whose Empty branch sends the packet without testing its length
h_get_sendEmpty ==
    /\ hpc = "get"
    /\ IF queue # <<>>
       THEN LET packet == Append(data_packet, Head(queue)) IN
            /\ queue' = Tail(queue)
            /\ data_packet' = packet
            /\ IF Len(packet) < POINTS_PER_PACKET
               THEN UNCHANGED <<hpc, response, sent>>
               ELSE /\ response' = "DATA"
                    /\ sent' = sent \o packet
                    /\ hpc' = "recv"
       ELSE /\ response' = "DATA"
            /\ sent' = sent \o data_packet
            /\ hpc' = "recv"
            /\ UNCHANGED <<queue, data_packet>>
    /\ UNCHANGED <<server_waits_for_client, accepts, stop_log, fetch, paused, exit, enable, config_valid, ppc, new,
                   put_i, dma_epoch, fetch_func, cmd, epoch, pl_next, full_hit, ncmds,
                   nfetches, listen_sock, plVars, clientVars>>

\* get_data: one pass of the packet loop, queue.get(timeout) returning a
\* point or raising Empty
h_get ==
    /\ hpc = "get"
    /\ IF queue # <<>>
       THEN LET packet == Append(data_packet, Head(queue)) IN
            /\ queue' = Tail(queue)
            /\ data_packet' = packet
            /\ IF Len(packet) < POINTS_PER_PACKET
               THEN UNCHANGED <<hpc, response, sent>>
               ELSE /\ response' = "DATA"
                    /\ sent' = sent \o packet
                    /\ hpc' = "recv"
       ELSE /\ \/ /\ data_packet # <<>>
                  /\ response' = "DATA"
                  /\ sent' = sent \o data_packet
               \/ /\ data_packet = <<>>
                  /\ paused
                  /\ response' = "ERR"
                  /\ sent' = sent
            /\ hpc' = "recv"
            /\ UNCHANGED <<queue, data_packet>>
    /\ UNCHANGED <<server_waits_for_client, accepts, stop_log, fetch, paused, exit, enable, config_valid, ppc, new,
                   put_i, dma_epoch, fetch_func, cmd, epoch, pl_next, full_hit, ncmds,
                   nfetches, listen_sock, plVars, clientVars>>

\* conn.recv returns b"" after at least one command: the client has
\* disconnected, the inner loop is left and pause_dma is called
h_disconnect ==
    /\ hpc = "recv"
    /\ ~server_waits_for_client
    /\ cmd' = ""
    /\ hpc' = "pause_clear"
    /\ UNCHANGED <<fetch, paused, exit, queue, enable, config_valid, ppc, new,
                   put_i, dma_epoch, fetch_func, data_packet, response, epoch, pl_next, sent,
                   full_hit, ncmds, nfetches, listen_sock, stop_log,
                   server_waits_for_client, accepts, plVars, clientVars>>

\* the outer loop of serve_one_client: `server_waits_for_client = True` and
\* `self.sock.accept()`
h_accept ==
    /\ hpc = "accept"
    /\ accepts < MaxAccepts
    /\ accepts' = accepts + 1
    /\ server_waits_for_client' = TRUE
    /\ hpc' = "recv"
    /\ UNCHANGED <<fetch, paused, exit, queue, enable, config_valid, ppc, new,
                   put_i, dma_epoch, fetch_func, cmd, data_packet, response, epoch, pl_next,
                   sent, full_hit, ncmds, nfetches, listen_sock, stop_log,
                   plVars, clientVars>>

\* the history of a stop: pause_dma is recorded when stop is what called it
Logged(event) ==
    stop_log' = IF cmd = "!" THEN Append(stop_log, event) ELSE stop_log

\* pause_dma: `self.queue.fetch.clear()`
h_pause_clear ==
    /\ hpc = "pause_clear"
    /\ fetch' = FALSE
    /\ hpc' = "pause_wait"
    /\ Logged("fetch.clear")
    /\ UNCHANGED <<server_waits_for_client, accepts, paused, exit, queue, enable, config_valid, ppc, new, put_i,
                   dma_epoch, fetch_func, cmd, data_packet, response, epoch, pl_next, sent,
                   full_hit, ncmds, nfetches, listen_sock, plVars, clientVars>>

\* pause_dma: `self.queue.paused.wait()`
h_pause_wait ==
    /\ hpc = "pause_wait"
    /\ paused
    /\ hpc' = "pause_disable"
    /\ Logged("paused")
    /\ UNCHANGED <<server_waits_for_client, accepts, fetch, paused, exit, queue, enable, config_valid, ppc, new,
                   put_i, dma_epoch, fetch_func, cmd, data_packet, response, epoch, pl_next,
                   sent, full_hit, ncmds, nfetches, listen_sock, plVars, clientVars>>

\* pause_dma: `self.pl_interface.enable = False`; run-PL 0 answers OK,
\* start_dma goes on to flush, stop goes on to join the producer, and after
\* a disconnect `with conn:` is left and the outer loop accepts again
h_pause_disable ==
    /\ hpc = "pause_disable"
    /\ enable' = FALSE
    /\ mmios' = EnableWrite(FALSE, enable, mmios)
    /\ first_dma' = TRUE
    /\ CASE cmd = "r1" -> hpc' = "flush" /\ response' = response
         [] cmd = "!" -> hpc' = "join" /\ response' = response
         [] cmd = "" -> hpc' = "accept" /\ response' = response
         [] OTHER -> hpc' = "recv" /\ response' = "OK"
    /\ Logged("pl.disable")
    /\ UNCHANGED <<server_waits_for_client, accepts, fetch, paused, exit, queue, config_valid, ppc, new, put_i,
                   dma_epoch, fetch_func, cmd, data_packet, epoch, pl_next, sent,
                   full_hit, ncmds, nfetches, listen_sock, mm, nops, dma_output_buffer, clientVars>>

\* DataQueue.flush: `self.queue.clear()` under the mutex
h_flush ==
    /\ hpc = "flush"
    /\ queue' = <<>>
    /\ hpc' = "flush_check"
    /\ UNCHANGED <<server_waits_for_client, accepts, stop_log, fetch, paused, exit, enable, config_valid, ppc, new, put_i,
                   dma_epoch, fetch_func, cmd, data_packet, response, epoch, pl_next, sent,
                   full_hit, ncmds, nfetches, listen_sock, plVars, clientVars>>

\* DataQueue.flush: `if not self.empty(): raise`, answered with RESPONSE_ERR
h_flush_check ==
    /\ hpc = "flush_check"
    /\ IF queue = <<>>
       THEN hpc' = "enable" /\ response' = response
       ELSE hpc' = "recv" /\ response' = "ERR"
    /\ UNCHANGED <<server_waits_for_client, accepts, stop_log, fetch, paused, exit, queue, enable, config_valid, ppc, new,
                   put_i, dma_epoch, fetch_func, cmd, data_packet, epoch, pl_next, sent,
                   full_hit, ncmds, nfetches, listen_sock, plVars, clientVars>>

\* start_dma: `self.pl_interface.enable = True`; the PL starts a new sweep
h_enable ==
    /\ hpc = "enable"
    /\ enable' = TRUE
    /\ mmios' = EnableWrite(TRUE, enable, mmios)
    /\ first_dma' = first_dma
    /\ epoch' = epoch + 1
    /\ pl_next' = 1
    /\ sent' = <<>>
    /\ hpc' = "fetch_set"
    /\ UNCHANGED <<server_waits_for_client, accepts, stop_log, fetch, paused, exit, queue, config_valid, ppc, new, put_i,
                   dma_epoch, fetch_func, cmd, data_packet, response, full_hit, ncmds,
                   nfetches, listen_sock, mm, nops, dma_output_buffer, clientVars>>

\* start_dma: `self.queue.fetch.set()`, run-PL 1 answers OK
h_fetch_set ==
    /\ hpc = "fetch_set"
    /\ fetch' = TRUE
    /\ full_hit' = FALSE
    /\ response' = "OK"
    /\ hpc' = "recv"
    /\ UNCHANGED <<server_waits_for_client, accepts, stop_log, paused, exit, queue, enable, config_valid, ppc, new, put_i,
                   dma_epoch, fetch_func, cmd, data_packet, epoch, pl_next, sent, ncmds,
                   nfetches, listen_sock, plVars, clientVars>>

\* stop: `self.queue.exit.set()`, then pause_dma
h_stop_exit ==
    /\ hpc = "stop_exit"
    /\ exit' = TRUE
    /\ hpc' = "pause_clear"
    /\ stop_log' = Append(stop_log, "exit.set")
    /\ UNCHANGED <<server_waits_for_client, accepts, fetch, paused, queue, enable, config_valid, ppc, new, put_i,
                   dma_epoch, fetch_func, cmd, data_packet, response, epoch, pl_next, sent,
                   full_hit, ncmds, nfetches, listen_sock, plVars, clientVars>>

\* stop whose join returns without waiting for the producer thread
h_join_noWait ==
    /\ hpc = "join"
    /\ hpc' = "stop_disable"
    /\ stop_log' = Append(stop_log, "join")
    /\ UNCHANGED <<server_waits_for_client, accepts, fetch, paused, exit, queue, enable, config_valid, ppc, new,
                   put_i, dma_epoch, fetch_func, cmd, data_packet, response, epoch, pl_next,
                   sent, full_hit, ncmds, nfetches, listen_sock, plVars, clientVars>>

\* stop: `self.fetch_thread.join()`
h_join ==
    /\ hpc = "join"
    /\ ppc \in Stopped
    /\ hpc' = "stop_disable"
    /\ stop_log' = Append(stop_log, "join")
    /\ UNCHANGED <<server_waits_for_client, accepts, fetch, paused, exit, queue, enable, config_valid, ppc, new,
                   put_i, dma_epoch, fetch_func, cmd, data_packet, response, epoch, pl_next,
                   sent, full_hit, ncmds, nfetches, listen_sock, plVars, clientVars>>

\* stop: `self.pl_interface.enable = False` and `raise ServerStop`, on which
\* serve_one_client returns out of `with conn:`, which closes the connection
h_stop_disable ==
    /\ hpc = "stop_disable"
    /\ enable' = FALSE
    /\ mmios' = EnableWrite(FALSE, enable, mmios)
    /\ first_dma' = TRUE
    /\ hpc' = "stopped"
    /\ stop_log' = stop_log \o <<"pl.disable", "ServerStop", "conn.close">>
    /\ UNCHANGED <<server_waits_for_client, accepts, fetch, paused, exit, queue, config_valid, ppc, new, put_i,
                   dma_epoch, fetch_func, cmd, data_packet, response, epoch, pl_next, sent,
                   full_hit, ncmds, nfetches, listen_sock, mm, nops, dma_output_buffer, clientVars>>

determine_response ==
    \/ h_recv
    \/ h_disconnect
    \/ h_accept
    \/ h_stop_exit
    \/ h_join
    \/ h_stop_disable
    \/ h_get
    \/ h_pause_clear
    \/ h_pause_wait
    \/ h_pause_disable
    \/ h_flush
    \/ h_flush_check
    \/ h_enable
    \/ h_fetch_set

\* the server as constructed; the orchestrator at rest
InitServer ==
    /\ ServerStart
    /\ mmios \in StartContents
    /\ mm = NoOp
    /\ nops = 0
    /\ first_dma = FALSE
    /\ dma_output_buffer = DMA_PACKET_LENGTH + 4
    /\ ConfStart
    /\ config_valid = verify_config(mmios)
    /\ running = FALSE
    /\ sweep_mode = "frequency"
    /\ has_clk = TRUE
    /\ points = 1
    /\ gen_open = [g \in Gens |-> FALSE]
    /\ output = [g \in Gens |-> FALSE]
    /\ sock = [t \in Callers |-> "none"]
    /\ pc = [t \in Callers |-> "idle"]
    /\ idx = [t \in Callers |-> 0]
    /\ stack = [t \in Callers |-> <<>>]
    /\ exc = [t \in Callers |-> "none"]
    /\ log = [t \in Callers |-> <<>>]
    /\ points_done = [t \in Callers |-> 0]
    /\ data = [t \in Callers |-> [i \in 1..points |-> 0]]
    /\ writes = [t \in Callers |-> [i \in 1..points |-> 0]]
    /\ recvd = [t \in Callers |-> 0]
    /\ faults = TRUE
    /\ cfg = ReadyCfg

NextServer == keep_fetching \/ determine_response

SpecServer == InitServer /\ [][NextServer]_vars


(***************************************************************************)
(* The PL interface and its configuration commands, exercised with the     *)
(* producer idle: config commands of the connected client, the enable      *)
(* setter, read_mmio and PLInterface.get_data.                             *)
(***************************************************************************)
\* values a config command carries: int(data[1:]) around the ends of the
\* field's range
Values(f) ==
    LET top == (FieldMax(f) * MMIO_FIELD_DICT[f].den) \div MMIO_FIELD_DICT[f].num
    IN  {-1, 0, 1, top, top + 1}

\* register contents found at start
InitContents == {0, WordMax, WordMax \div 3}

\* the exception write_mmio raises, or "ok"
WriteOutcome(f, value) == IF WriteAccepted(f, value) THEN "ok" ELSE "ValueError"

\* the buffer allocated without the 4 extra words
Allocate_noExtra(value) == value * DMA_PACKET_LENGTH

\* points_per_transfer setter: the length of the buffer allocated after
\* write_mmio has returned
Allocate(value) == value * DMA_PACKET_LENGTH + 4

\* points_per_transfer getter: `len(self.dma_output_buffer) // 12`
points_per_transfer(buffer) == buffer \div 12

\* `if value < 1: value = 1` of the points_per_transfer setter
PptClamp(value) == IF value < 1 THEN 1 ELSE value

\* config_command without the test of enable in change_config
config_command_noEnableTest(f, v, args) ==
    /\ hpc = "recv"
    /\ nops < MaxOps
    /\ nops' = nops + 1
    /\ cmd' = f
    /\ LET value == IF f = "a" THEN PptClamp(v) ELSE v
           outcome == WriteOutcome(f, value)
       IN  /\ mm' = [kind |-> "write", f |-> f, value |-> value,
                     result |-> outcome, before |-> mmios, read |-> <<0, 1>>,
                     args |-> args, strip |-> "none"]
           /\ mmios' = IF outcome = "ok" THEN write_mmio(f, value, mmios)
                       ELSE mmios
           /\ dma_output_buffer' = IF outcome = "ok" /\ f = "a"
                                   THEN Allocate(value)
                                   ELSE dma_output_buffer
           /\ response' = IF outcome = "ok" THEN "OK" ELSE "ERR"
    /\ UNCHANGED <<server_waits_for_client, accepts, stop_log, fetch, paused, exit, queue, enable, config_valid, ppc, new,
                   put_i, dma_epoch, fetch_func, hpc, data_packet, epoch, pl_next, sent,
                   full_hit, ncmds, nfetches, listen_sock, first_dma, clientVars>>

\* determine_response for a config command f with argument v:
\* change_config, which refuses while the PL is enabled, uses the
\* points_per_transfer setter for PPT and write_mmio otherwise; an exception
\* is answered with RESPONSE_ERR by serve_one_client
config_command(f, v, args) ==
    /\ hpc = "recv"
    /\ nops < MaxOps
    /\ nops' = nops + 1
    /\ cmd' = f
    /\ LET value == IF f = "a" THEN PptClamp(v) ELSE v
           outcome == IF enable THEN "PLError" ELSE WriteOutcome(f, value)
       IN  /\ mm' = [kind |-> "write", f |-> f, value |-> value,
                     result |-> outcome, before |-> mmios, read |-> <<0, 1>>,
                     args |-> args, strip |-> "none"]
           /\ mmios' = IF outcome = "ok" THEN write_mmio(f, value, mmios)
                       ELSE mmios
           /\ dma_output_buffer' = IF outcome = "ok" /\ f = "a"
                                   THEN Allocate(value)
                                   ELSE dma_output_buffer
           /\ response' = IF outcome = "ok" THEN "OK" ELSE "ERR"
    /\ UNCHANGED <<server_waits_for_client, accepts, stop_log, fetch, paused, exit, queue, enable, config_valid, ppc, new,
                   put_i, dma_epoch, fetch_func, hpc, data_packet, epoch, pl_next, sent,
                   full_hit, ncmds, nfetches, listen_sock, first_dma, clientVars>>

\* a config command sent with send_receive
change_config(f, v) == config_command(f, v, NoArgs)

\* send_trigger_config with the polarity bit set for active-high
TriggerBits_activeHigh(positive, sweep, step) ==
    (IF positive THEN 1 ELSE 0) + (IF sweep THEN 2 ELSE 0)
        + (IF step THEN 4 ELSE 0)

\* TCPClient.send_trigger_config: the flags packed by the client
TriggerBits(positive, sweep, step) ==
    (IF positive THEN 0 ELSE 1) + (IF sweep THEN 2 ELSE 0)
        + (IF step THEN 4 ELSE 0)

\* TCPClient.send_trigger_config: command character and flags sent to the
\* server, handled there as a config command
send_trigger_config(trig_nr, positive, sweep, step) ==
    config_command(IF trig_nr = 1 THEN "o" ELSE "c",
                   TriggerBits(positive, sweep, step),
                   <<trig_nr, positive, sweep, step>>)

\* PLInterface.read_mmio(f), right after the last operation
pl_read_mmio(f) ==
    /\ hpc = "recv"
    /\ nops < MaxOps
    /\ nops' = nops + 1
    /\ mm' = [mm EXCEPT !.kind = IF mm.kind = "write" /\ mm.result = "ok"
                                    /\ mm.f = f
                                 THEN "read_back" ELSE "read",
                        !.f = f,
                        !.read = read_mmio(f, mmios)]
    /\ UNCHANGED <<mmios, first_dma, dma_output_buffer, serverVars, clientVars>>

\* the enable setter of PLInterface: ignored for `self._enabled and value`,
\* `_first_dma = True` on disable; the PL restarts its sweep when it is
\* taken out of reset
pl_enable(value) ==
    /\ hpc = "recv"
    /\ nops < MaxOps
    /\ nops' = nops + 1
    /\ mmios' = EnableWrite(value, enable, mmios)
    /\ enable' = value
    /\ first_dma' = IF value THEN first_dma ELSE TRUE
    /\ pl_next' = IF value /\ ~enable THEN 1 ELSE pl_next
    /\ mm' = [NoOp EXCEPT !.kind = "enable", !.before = mmios]
    /\ UNCHANGED <<server_waits_for_client, accepts, stop_log, fetch, paused, exit, queue, config_valid, ppc, new,
                   put_i, dma_epoch, fetch_func, hpc, cmd, data_packet, response, epoch,
                   sent, full_hit, ncmds, nfetches, listen_sock,
                   dma_output_buffer, clientVars>>

\* pl_get_data without the test of enable
pl_get_data_noCheck ==
    /\ hpc = "recv"
    /\ nops < MaxOps
    /\ nops' = nops + 1
    /\ mm' = [NoOp EXCEPT !.kind = "get_data", !.before = mmios,
                          !.result = "transfer", !.value = nfetches,
                          !.strip = IF first_dma THEN "leading"
                                    ELSE "trailing"]
    /\ nfetches' = nfetches + 1
    /\ first_dma' = FALSE
    /\ pl_next' = pl_next + PointsPerTransfer
    /\ UNCHANGED <<server_waits_for_client, accepts, stop_log, fetch, paused, exit, queue, enable, config_valid, ppc, new,
                   put_i, dma_epoch, fetch_func, hpc, cmd, data_packet, response, epoch,
                   sent, full_hit, ncmds, listen_sock, mmios,
                   dma_output_buffer, clientVars>>

\* PLInterface.get_data: DMANotAllowed unless enabled, else a DMA transfer
\* is made and _raw_dma_request cuts the leading or the trailing 4 words
\* off the buffer; mm.value keeps the number of transfers started before
pl_get_data ==
    /\ hpc = "recv"
    /\ nops < MaxOps
    /\ nops' = nops + 1
    /\ mm' = [NoOp EXCEPT !.kind = "get_data", !.before = mmios,
                          !.result = IF enable THEN "transfer"
                                     ELSE "DMANotAllowed",
                          !.value = nfetches,
                          !.strip = IF ~enable THEN "none"
                                    ELSE IF first_dma THEN "leading"
                                    ELSE "trailing"]
    /\ nfetches' = IF enable THEN nfetches + 1 ELSE nfetches
    /\ first_dma' = IF enable THEN FALSE ELSE first_dma
    /\ pl_next' = IF enable THEN pl_next + PointsPerTransfer ELSE pl_next
    /\ UNCHANGED <<server_waits_for_client, accepts, stop_log, fetch, paused, exit, queue, enable, config_valid, ppc, new,
                   put_i, dma_epoch, fetch_func, hpc, cmd, data_packet, response, epoch,
                   sent, full_hit, ncmds, listen_sock, mmios,
                   dma_output_buffer, clientVars>>

\* the orchestrator at rest
ClientAtRest ==
    /\ running = FALSE
    /\ sweep_mode = "frequency"
    /\ has_clk = TRUE
    /\ points = 1
    /\ gen_open = [g \in Gens |-> FALSE]
    /\ output = [g \in Gens |-> FALSE]
    /\ sock = [t \in Callers |-> "none"]
    /\ pc = [t \in Callers |-> "idle"]
    /\ idx = [t \in Callers |-> 0]
    /\ stack = [t \in Callers |-> <<>>]
    /\ exc = [t \in Callers |-> "none"]
    /\ log = [t \in Callers |-> <<>>]
    /\ points_done = [t \in Callers |-> 0]
    /\ data = [t \in Callers |-> [i \in 1..points |-> 0]]
    /\ writes = [t \in Callers |-> [i \in 1..points |-> 0]]
    /\ recvd = [t \in Callers |-> 0]
    /\ faults = TRUE
    /\ cfg = ReadyCfg
    /\ ConfStart

\* TCPDataServer.__init__ with a client connected, registers as found
InitMMIO ==
    /\ ServerStart
    /\ ClientAtRest
    /\ config_valid = TRUE
    /\ \E x \in InitContents : mmios = [g \in Regs |-> x]
    /\ mm = NoOp
    /\ nops = 0
    /\ first_dma = FALSE
    /\ dma_output_buffer = DMA_PACKET_LENGTH + 4

NextMMIO ==
    \/ \E f \in TCP_PL_CONFIG_CMDS : \E v \in Values(f) : change_config(f, v)
    \/ \E n \in {0, 1} : \E p, s, st \in BOOLEAN :
           send_trigger_config(n, p, s, st)
    \/ \E f \in Fields : pl_read_mmio(f)
    \/ \E b \in BOOLEAN : pl_enable(b)
    \/ pl_get_data

SpecMMIO == InitMMIO /\ [][NextMMIO]_vars

(***************************************************************************)
(* Properties of the server: producer thread against command handler.      *)
(***************************************************************************)
\* positions of keep_fetching inside the for loop that enqueues a block
Enqueuing == {"put", "full_clear", "full_pause"}

\* C3: the points sent to the client since the PL was enabled are a prefix
\* of what the PL produced since then: the i-th point sent is the i-th
\* point of the current acquisition, none reordered, duplicated or skipped.
C3_SentIsPrefixOfProduced ==
    \A i \in 1..Len(sent) : sent[i] = <<epoch, i>>

\* C4: right after start_dma has written the enable bit the queue is empty
\* and the producer is not enqueuing, and while the PL is enabled no point
\* fetched before that enable is in the queue.
C4_QueueFreshAtEnable ==
    /\ hpc = "fetch_set" => (queue = <<>> /\ ppc \notin Enqueuing)
    /\ enable => \A i \in 1..Len(queue) : queue[i][1] = epoch

\* C8: the queue never holds more than MAXSIZE points, and from the moment
\* a put_nowait has raised Full until the handler sets fetch again the
\* producer adds no point to the queue.
C8_FullQueuePausesProducer ==
    /\ [](Len(queue) <= MAXSIZE)
    /\ [][full_hit => Len(queue') <= Len(queue)]_vars

\* C9: once keep_fetching is no longer running, whether it returned or ended
\* with an exception, paused is set.
C9_PausedSetOnEveryExit ==
    ppc \in Stopped => paused

\* C10: a data request is never in the state in which get_data can only
\* loop: nothing taken yet, queue empty, paused clear and no producer
\* thread left to change either.
C10_DataRequestCanRespond ==
    ~(/\ hpc = "get"
      /\ data_packet = <<>>
      /\ queue = <<>>
      /\ ~paused
      /\ ppc \in Stopped)

\* helpers.floats64_to_bytes: 8 bytes for each float
floats64_to_bytes(n) == 8 * n

\* number of floats in the packet: `data_packet.extend(point)`, 4 per point
PacketFloats == 4 * Len(data_packet)

\* the handler has answered a data request
DataAnswered == cmd = "d" /\ hpc = "recv"

RunBit(regs) == FieldOf("r", regs)

\* C12: a call of get_data made while the PL enable bit is 0 ends with
\* DMANotAllowed and has started no DMA transfer.
C12_DisabledGetDataRaises ==
    (mm.kind = "get_data" /\ RunBit(mm.before) = 0) =>
        /\ mm.result = "DMANotAllowed"
        /\ nfetches = mm.value

\* get_data was refused with the enable bit at 0
C12_Witness ==
    /\ mm.kind = "get_data"
    /\ RunBit(mm.before) = 0
    /\ mm.result = "DMANotAllowed"

\* C13: a read_mmio that directly follows an accepted write of v to a
\* field with an integer scale returns v.
C13_ReadBackReturnsWritten ==
    (mm.kind = "read_back" /\ mm.f \in IntegerScaled) =>
        ReadEquals(mm.read, mm.value)

\* C14: an accepted write leaves every register other than the field's own
\* unchanged and, in its own register, every bit outside the field's mask.
C14_WriteKeepsOtherBits ==
    (mm.kind = "write" /\ mm.result = "ok") =>
        \A g \in Regs :
            IF g = MMIO_FIELD_DICT[mm.f].mmio
            THEN AndNot(mmios[g], Mask(mm.f)) = AndNot(mm.before[g], Mask(mm.f))
            ELSE mmios[g] = mm.before[g]

\* a field was rewritten while the rest of its register held other bits
C14_Witness ==
    /\ mm.kind = "write"
    /\ mm.result = "ok"
    /\ mm.f \in {"c", "o", "a"}
    /\ FieldOf(mm.f, mmios) # FieldOf(mm.f, mm.before)
    /\ AndNot(mm.before[MMIO_FIELD_DICT[mm.f].mmio], Mask(mm.f)) # 0

\* C15: a config command whose scaled value exceeds the field maximum is
\* refused (with ValueError when the PL is disabled), leaves all registers
\* unchanged and is answered with `?`.
C15_TooLargeIsRefused ==
    (mm.kind = "write" /\ Scaled(mm.f, mm.value) > FieldMax(mm.f)) =>
        /\ mm.result = IF enable THEN "PLError" ELSE "ValueError"
        /\ mmios = mm.before
        /\ response = "ERR"

\* a value one above the field maximum was refused
C15_Witness ==
    /\ mm.kind = "write"
    /\ Scaled(mm.f, mm.value) = FieldMax(mm.f) + 1
    /\ mm.result = "ValueError"
    /\ response = "ERR"

\* the nibble of trigger trig_nr
TriggerNibble(trig_nr, regs) == FieldOf(IF trig_nr = 1 THEN "o" ELSE "c", regs)

\* C16: after send_trigger_config(trig_nr, positive, sweep, step) with the
\* PL disabled the nibble of that trigger is (1 if not positive) + 2*sweep
\* + 4*step, bit 3 being 0, whatever the nibble held before.
C16_TriggerNibbleIsFlags ==
    (mm.kind = "write" /\ mm.args[1] \in {0, 1} /\ ~enable) =>
        LET nibble == TriggerNibble(mm.args[1], mmios) IN
        /\ nibble % 2 = (IF mm.args[2] THEN 0 ELSE 1)
        /\ (nibble \div 2) % 2 = (IF mm.args[3] THEN 1 ELSE 0)
        /\ (nibble \div 4) % 2 = (IF mm.args[4] THEN 1 ELSE 0)
        /\ nibble \div 8 = 0

\* a trigger was configured over a nibble that had a flag set which the new
\* configuration clears
C16_Witness ==
    /\ mm.kind = "write"
    /\ mm.args[1] \in {0, 1}
    /\ ~enable
    /\ mm.args[2]
    /\ TriggerNibble(mm.args[1], mm.before) % 2 = 1
    /\ TriggerNibble(mm.args[1], mmios) % 2 = 0

\* ---- TCPDataServer.stop ----

\* what stop does, in the order of its statements, up to the return of
\* serve_one_client
StopOrder ==
    <<"sock.close", "exit.set", "fetch.clear", "paused", "pl.disable", "join",
      "pl.disable", "ServerStop", "conn.close">>

IsPrefix(s, t) ==
    /\ Len(s) <= Len(t)
    /\ \A i \in 1..Len(s) : s[i] = t[i]

\* a stop that waits for an event nobody is left to set
StopStuck ==
    /\ cmd = "!"
    /\ hpc = "pause_wait"
    /\ ~paused
    /\ ppc \in Stopped

\* C19: a stop closes the listening socket, sets exit, pauses the DMA (clear
\* fetch, wait for paused, disable the PL), joins the producer, disables the
\* PL and raises ServerStop, in this order; it always completes; and when
\* serve_one_client has returned the producer has terminated and the PL
\* enable bit is 0.
C19_StopInOrderAndCompletes ==
    /\ IsPrefix(stop_log, StopOrder)
    /\ ~StopStuck
    /\ hpc = "stopped" => ppc \in Stopped /\ ~enable /\ RunBit(mmios) = 0

\* the events C20 speaks of
IsOrderEvent(e) == e \in {"sock.close", "exit.set", "pl.disable", "join", "conn.close"}

Joined == \E i \in 1..Len(stop_log) : stop_log[i] = "join"

\* C20 (as the code has it): on every stop the listening socket is closed
\* first, then exit is set, the PL is disabled by pause_dma, the producer
\* thread has finished when join returns, the PL is disabled again, and only
\* then the connection to the client is closed.
C20_StopEventOrder ==
    /\ IsPrefix(SelectSeq(stop_log, IsOrderEvent),
                <<"sock.close", "exit.set", "pl.disable", "join", "pl.disable",
                  "conn.close">>)
    /\ Joined => ppc \in Stopped

C20_Witness ==
    /\ hpc = "stopped"
    /\ stop_log = StopOrder

\* place of an event in the order C20 states
Rank(e) ==
    CASE e = "exit.set" -> 1
      [] e = "join" -> 2
      [] e = "pl.disable" -> 3
      [] e = "sock.close" -> 4
      [] OTHER -> 0

\* C20 (as stated): on every stop exit is set, then the producer thread has
\* finished, then the PL is disabled, and only then the socket is closed.
C20_SocketClosedLast ==
    \A i, j \in 1..Len(stop_log) :
        (i < j /\ Rank(stop_log[i]) > 0 /\ Rank(stop_log[j]) > 0) =>
            Rank(stop_log[i]) <= Rank(stop_log[j])

\* position of the first occurrence of event e in the history of a stop,
\* 0 when it has not happened
RECURSIVE FirstAt(_, _, _)
FirstAt(e, s, i) ==
    IF i > Len(s) THEN 0
    ELSE IF s[i] = e THEN i ELSE FirstAt(e, s, i + 1)

\* C21: when the server has received the stop command `!`, it sends the
\* success byte `*` to the client before the connection is closed.
C21_StopIsAnswered ==
    FirstAt("conn.close", stop_log, 1) > 0 =>
        /\ FirstAt("sendall *", stop_log, 1) > 0
        /\ FirstAt("sendall *", stop_log, 1) < FirstAt("conn.close", stop_log, 1)

\* C22: serve_one_client accepts exactly one connection in its lifetime;
\* after that client has disconnected the server does not go back to
\* accepting another connection.
C22_OneClientOnly ==
    /\ accepts <= 1
    /\ hpc # "accept"

\* a step in which the handler receives a command it does not recognise
RecvUnrecognised ==
    /\ hpc = "recv"
    /\ ncmds' = ncmds + 1
    /\ cmd' \in Unrecognised

\* C23: for every received command that is not recognised the server
\* replies `?`, leaves the PL enable bit, all MMIO registers, the queue and
\* the producer flags unchanged, and keeps serving the same connection.
C23_UnrecognisedAnswersErr ==
    [][RecvUnrecognised =>
        /\ response' = "ERR"
        /\ UNCHANGED <<enable, mmios, queue, fetch, paused, exit>>
        /\ hpc' = "recv"
        /\ listen_sock' = listen_sock
        /\ accepts' = accepts]_vars

C23_Witness ==
    /\ cmd = "r2"
    /\ hpc = "recv"
    /\ response = "ERR"
    /\ enable
    /\ fetch

(***************************************************************************)
(* run() over every sweep mode and every configuration _ready_checks can   *)
(* meet.                                                                   *)
(***************************************************************************)
\* an orchestrator as the user configured it, no run() called yet
InitReady ==
    /\ ServerStart
    /\ PLStart
    /\ ConfStart
    /\ config_valid = TRUE
    /\ running = FALSE
    /\ sweep_mode \in AllModes
    /\ has_clk \in BOOLEAN
    /\ points \in 1..MaxPoints
    /\ cfg \in Cfgs
    /\ gen_open = [g \in Gens |-> FALSE]
    /\ output = [g \in Gens |-> FALSE]
    /\ sock = [t \in Callers |-> "none"]
    /\ pc = [t \in Callers |-> "idle"]
    /\ idx = [t \in Callers |-> 0]
    /\ stack = [t \in Callers |-> <<>>]
    /\ exc = [t \in Callers |-> "none"]
    /\ log = [t \in Callers |-> <<>>]
    /\ points_done = [t \in Callers |-> 0]
    /\ data = [t \in Callers |-> [i \in 1..points |-> 0]]
    /\ writes = [t \in Callers |-> [i \in 1..points |-> 0]]
    /\ recvd = [t \in Callers |-> 0]
    /\ faults = TRUE

SpecReady == InitReady /\ [][NextClient]_vars

\* run() of caller t has ended
Ended(t) == pc[t] \in {"raised", "returned"}

\* generator sessions, generator commands and TCP operations of caller t
\* (the pings of _ready_checks go to the host, not to the instrument)
SessionOps(t) == SelectSeq(log[t], LAMBDA e : e[1] # "latch" /\ e[2] # "ping")

\* C24 (as the code has it): run() with a sweep_mode other than frequency
\* ends with an error, which is the not-implemented error unless a
\* readiness check fails first with its own error; it opens no generator
\* session, sends no generator command, performs no TCP operation and
\* leaves the running latch clear.
C24_OtherModesFail ==
    (sweep_mode # "frequency" /\ Ended("t1")) =>
        /\ pc["t1"] = "raised"
        /\ exc["t1"] = (IF ReadyOutcome = "ok" THEN "NotImplementedError"
                        ELSE ReadyOutcome)
        /\ SessionOps("t1") = <<>>
        /\ sock["t1"] = "none"
        /\ ~running

\* a power sweep passed the readiness checks, set the latch and was refused
C24_Witness ==
    /\ sweep_mode = "power"
    /\ pc["t1"] = "raised"
    /\ exc["t1"] = "NotImplementedError"
    /\ log["t1"][Len(log["t1"])] = <<"latch", "clear">>

\* C24 (as stated): run() with a sweep_mode other than frequency fails
\* with a not-implemented error, performs no generator operation and no
\* TCP operation, and leaves the running latch clear.
C24_OtherModesNotImplemented ==
    (sweep_mode # "frequency" /\ Ended("t1")) =>
        /\ pc["t1"] = "raised"
        /\ exc["t1"] = "NotImplementedError"
        /\ SessionOps("t1") = <<>>
        /\ sock["t1"] = "none"
        /\ ~running

\* one of the readiness checks of the code fails
ReadinessFails ==
    \/ sweep_mode \in KnownModes /\ ~cfg.required
    \/ /\ sweep_mode \in KnownModes
       /\ cfg.required
       /\ \/ cfg.timestep <= Max(cfg.rf_dead, cfg.lo_dead)
          \/ cfg.timestep <= Max(cfg.rf_trig, cfg.lo_trig)
          \/ sweep_mode \in {"frequency", "power"} /\ ~cfg.rf_fsweep
          \/ sweep_mode \in {"frequency", "power"} /\ ~cfg.lo_fsweep
          \/ has_clk /\ ~cfg.clk_cw

C26_SweepWithoutClock ==
    (~has_clk /\ sweep_mode = "frequency" /\ ReadyOutcome = "ok"
        /\ Ended("t1") /\ faults) =>
        /\ pc["t1"] = "returned"
        /\ points_done["t1"] = points
        /\ ~running
        /\ \A i \in 1..Len(log["t1"]) :
             log["t1"][i][1] = "clk" => log["t1"][i][2] = "ping"

(***************************************************************************)
(* Order of the operations of a sweep.                                     *)
(***************************************************************************)
\* configuration commands the SoC receives on the connection of a sweep
ConfigOps ==
    {"reset_trigger_config_0", "reset_trigger_config_1", "send_tpp",
     "send_dead_time", "send_trigger_length", "send_trigger_config_0",
     "send_trigger_config_1"}

\* C27: in every sweep, every configuration command the SoC receives on the
\* sweep's TCP connection, the ones sent on connecting included, is sent
\* after the clock generator was programmed with continuous_wave and
\* switched on with rf_on.
C27_ClockUpBeforeConfig ==
    LET L == log["t1"] IN
    \A i \in 1..Len(L) :
        (L[i][1] = "tcp" /\ L[i][2] \in ConfigOps) =>
            \E j, k \in 1..(i - 1) :
                /\ j < k
                /\ L[j] = <<"clk", "continuous_wave">>
                /\ L[k] = <<"clk", "rf_on">>

\* the operations C28 orders
IsOrderedOp(e) ==
    \/ e[2] \in {"fsweep", "continuous_wave", "rf_on", "rf_off"}
    \/ e \in {<<"tcp", "start_acquisition">>, <<"tcp", "stop_acquisition">>}

\* the ordered operations of a sweep that succeeds: the body of _fsweep,
\* then stop() of each generator as the scopes are left
SweepOrder ==
    << <<"rf", "fsweep">>, <<"lo", "fsweep">>, <<"clk", "continuous_wave">>,
       <<"clk", "rf_on">>, <<"rf", "rf_on">>, <<"lo", "rf_on">>,
       <<"tcp", "start_acquisition">>, <<"tcp", "stop_acquisition">>,
       <<"rf", "rf_off">>, <<"lo", "rf_off">>, <<"clk", "rf_off">>,
       <<"clk", "rf_off">>, <<"lo", "rf_off">>, <<"rf", "rf_off">> >>

\* C28 (as the code has it): in every successful sweep the generators are
\* programmed in the order RF, LO, clock; acquisition is enabled in the
\* order RF rf_on, LO rf_on, SoC start_acquisition; it is disabled in the
\* order SoC stop_acquisition, RF rf_off, LO rf_off, clock rf_off; leaving
\* the scopes then switches off clock, LO and RF once more.
C28_SweepOrder ==
    pc["t1"] = "returned" => SelectSeq(log["t1"], IsOrderedOp) = SweepOrder

C28_Witness ==
    /\ pc["t1"] = "returned"
    /\ points_done["t1"] = points
    /\ points > 1

\* C28 (as stated): programming RF, LO, clock; enabling RF, LO, SoC;
\* disabling in the reverse order SoC, LO, RF, and the clock after them.
C28_DisableInReverse ==
    LET L == log["t1"]
        at(e) == FirstAt(e, L, 1)
    IN pc["t1"] = "returned" =>
        /\ 0 < at(<<"rf", "fsweep">>)
        /\ at(<<"rf", "fsweep">>) < at(<<"lo", "fsweep">>)
        /\ at(<<"lo", "fsweep">>) < at(<<"clk", "continuous_wave">>)
        /\ 0 < at(<<"rf", "rf_on">>)
        /\ at(<<"rf", "rf_on">>) < at(<<"lo", "rf_on">>)
        /\ at(<<"lo", "rf_on">>) < at(<<"tcp", "start_acquisition">>)
        /\ at(<<"tcp", "start_acquisition">>) < at(<<"tcp", "stop_acquisition">>)
        /\ at(<<"tcp", "stop_acquisition">>) < at(<<"lo", "rf_off">>)
        /\ at(<<"lo", "rf_off">>) < at(<<"rf", "rf_off">>)
        /\ at(<<"rf", "rf_off">>) < at(<<"clk", "rf_off">>)

(***************************************************************************)
(* The DataQueue on its own: a producer thread running keep_fetching with  *)
(* a fetch function that always returns one point, and the consumer of    *)
(* test_queue.                                                             *)
(***************************************************************************)
\* DataQueue.__init__ followed by `thr.start()` of test_queue; hpc is the
\* position of the consumer
InitQueue ==
    /\ fetch = FALSE
    /\ paused = TRUE
    /\ exit = FALSE
    /\ queue = <<>>
    /\ ppc = "while"
    /\ new = [kind |-> "unbound", pts |-> <<>>]
    /\ put_i = 0
    /\ fetch_func = "test_data_func"
    /\ hpc = "tq_set"
    /\ enable = FALSE
    /\ config_valid = TRUE
    /\ dma_epoch = 0
    /\ cmd = "none"
    /\ data_packet = <<>>
    /\ response = "none"
    /\ epoch = 0
    /\ pl_next = 1
    /\ sent = <<>>
    /\ full_hit = FALSE
    /\ ncmds = 0
    /\ nfetches = 0
    /\ listen_sock = "none"
    /\ stop_log = <<>>
    /\ server_waits_for_client = FALSE
    /\ accepts = 0
    /\ PLStart
    /\ ConfStart
    /\ ClientAtRest

\* `dq.fetch.set()`
tq_fetch_set ==
    /\ hpc = "tq_set"
    /\ fetch' = TRUE
    /\ hpc' = "tq_get"
    /\ UNCHANGED <<paused, exit, queue, enable, config_valid, ppc, new, put_i,
                   dma_epoch, fetch_func, cmd, data_packet, response, epoch,
                   pl_next, sent, full_hit, ncmds, nfetches, listen_sock,
                   stop_log, server_waits_for_client, accepts, plVars,
                   clientVars>>

\* `dq.get(timeout=5)` returning an item
tq_get ==
    /\ hpc = "tq_get"
    /\ queue # <<>>
    /\ queue' = Tail(queue)
    /\ hpc' = "tq_clear"
    /\ UNCHANGED <<fetch, paused, exit, enable, config_valid, ppc, new, put_i,
                   dma_epoch, fetch_func, cmd, data_packet, response, epoch,
                   pl_next, sent, full_hit, ncmds, nfetches, listen_sock,
                   stop_log, server_waits_for_client, accepts, plVars,
                   clientVars>>

\* `dq.fetch.clear()`
tq_fetch_clear ==
    /\ hpc = "tq_clear"
    /\ fetch' = FALSE
    /\ hpc' = "tq_wait"
    /\ UNCHANGED <<paused, exit, queue, enable, config_valid, ppc, new, put_i,
                   dma_epoch, fetch_func, cmd, data_packet, response, epoch,
                   pl_next, sent, full_hit, ncmds, nfetches, listen_sock,
                   stop_log, server_waits_for_client, accepts, plVars,
                   clientVars>>

\* `dq.paused.wait(5)` returning True
tq_paused_wait ==
    /\ hpc = "tq_wait"
    /\ paused
    /\ hpc' = "tq_exit"
    /\ UNCHANGED <<fetch, paused, exit, queue, enable, config_valid, ppc, new,
                   put_i, dma_epoch, fetch_func, cmd, data_packet, response,
                   epoch, pl_next, sent, full_hit, ncmds, nfetches,
                   listen_sock, stop_log, server_waits_for_client, accepts,
                   plVars, clientVars>>

\* `dq.exit.set()`
tq_exit_set ==
    /\ hpc = "tq_exit"
    /\ exit' = TRUE
    /\ hpc' = "tq_join"
    /\ UNCHANGED <<fetch, paused, queue, enable, config_valid, ppc, new, put_i,
                   dma_epoch, fetch_func, cmd, data_packet, response, epoch,
                   pl_next, sent, full_hit, ncmds, nfetches, listen_sock,
                   stop_log, server_waits_for_client, accepts, plVars,
                   clientVars>>

\* `thr.join(timeout=5)` with the thread ended
tq_join ==
    /\ hpc = "tq_join"
    /\ ppc \in Stopped
    /\ hpc' = "tq_done"
    /\ UNCHANGED <<fetch, paused, exit, queue, enable, config_valid, ppc, new,
                   put_i, dma_epoch, fetch_func, cmd, data_packet, response,
                   epoch, pl_next, sent, full_hit, ncmds, nfetches,
                   listen_sock, stop_log, server_waits_for_client, accepts,
                   plVars, clientVars>>

test_queue ==
    \/ tq_fetch_set
    \/ tq_get
    \/ tq_fetch_clear
    \/ tq_paused_wait
    \/ tq_exit_set
    \/ tq_join

NextQueue == keep_fetching \/ test_queue

\* the producer thread is scheduled fairly
SpecQueue == InitQueue /\ [][NextQueue]_vars /\ WF_vars(keep_fetching)

\* C29: a new DataQueue has fetch clear, paused set and exit clear; with the
\* producer running a fetch function that returns, whenever fetch is clear
\* paused is eventually set, and whenever exit is set keep_fetching
\* eventually returns.
C29_QueueAcknowledges ==
    /\ (fetch = FALSE /\ paused = TRUE /\ exit = FALSE)
    /\ (~fetch ~> paused)
    /\ (exit ~> ppc = "done")

\* test_queue has run to its end: the producer was paused on request and
\* has returned after exit was set
C29_Witness ==
    /\ hpc = "tq_done"
    /\ ppc = "done"
    /\ ~fetch
    /\ paused
    /\ exit

\* C30: whenever paused is set, the producer is neither inside a DMA
\* transfer nor enqueuing the points of a fetched block.
C30_PausedMeansIdle == paused => ppc \notin ({"dma"} \cup Enqueuing)

\* positions of the producer at which a DMA transfer is in flight or to
\* which the producer is committed: it has seen fetch set and exit clear and
\* goes on to fetch_func without testing fetch again
InFlight == {"clear_paused", "fetch", "dma"}

\* C31: at the moment pause_dma writes the PL enable bit to 0, the producer
\* is neither inside a DMA transfer nor committed to starting one.
C31_DisableOnlyWhenIdle ==
    [][(hpc = "pause_disable" /\ enable /\ ~enable') => ppc \notin InFlight]_vars

\* C32: a run-PL 1 command received while the MMIO configuration is invalid
\* (ppt = 0, tpp = 0, dead time = 0, tpp <= dead time or tpp <= trigger
\* length) is answered with `?`; the PL enable bit, fetch, paused, the queue
\* and the registers stay as they were and the handler waits for the next
\* command.
C32_InvalidConfigRefused ==
    [][LET InvalidConfig ==
               \/ FieldOf("a", mmios) = 0
               \/ mmios["TPP"] = 0
               \/ mmios["DEAD_TIME"] = 0
               \/ mmios["TPP"] <= mmios["DEAD_TIME"]
               \/ mmios["TPP"] <= FieldOf("t", mmios)
       IN  (hpc = "recv" /\ ncmds' = ncmds + 1 /\ cmd' = "r1"
                /\ InvalidConfig) =>
               /\ response' = "ERR"
               /\ hpc' = "recv"
               /\ UNCHANGED <<enable, fetch, paused, queue, mmios>>]_vars

\* run-PL 1 was refused because tpp does not exceed the trigger length
C32_Witness ==
    /\ cmd = "r1"
    /\ response = "ERR"
    /\ hpc = "recv"
    /\ mmios["TPP"] > mmios["DEAD_TIME"]
    /\ mmios["DEAD_TIME"] > 0
    /\ FieldOf("a", mmios) > 0
    /\ mmios["TPP"] <= FieldOf("t", mmios)

\* C33: get_data cuts off the leading 4 words exactly when the transfer is
\* the first one since the PL was most recently enabled, the very first
\* enable after start-up included, and the trailing 4 words otherwise.
C33_FirstTransferStripsLeading ==
    (mm.kind = "get_data" /\ mm.result = "transfer") =>
        /\ mm.strip = "leading" <=> pl_next = 1 + PointsPerTransfer
        /\ mm.strip = "trailing" <=> pl_next # 1 + PointsPerTransfer

\* C34: a fetch function that raised DMANotAllowed does not end the
\* producer (at the length test `new` is unbound only after DMANotAllowed
\* on the first call, and the producer must go on), and no block is
\* enqueued a second time: the queue never holds the same point twice.
C34_NotAllowedSkipsIteration ==
    /\ [][(ppc = "check_len" /\ new.kind = "unbound") => ppc' # "crashed"]_vars
    /\ [](\A i, j \in DOMAIN queue : i # j => queue[i] # queue[j])

\* C35: a configuration write command received while the PL is enabled is
\* answered with `?` and leaves the registers and the DMA buffer unchanged;
\* a configuration field or the buffer changes only while the PL is
\* disabled, and switching the PL on or off changes no configuration field,
\* so what was written while disabled is in force at the next enable.
C35_ConfigOnlyWhileDisabled ==
    [][/\ (hpc = "recv" /\ nops' = nops + 1 /\ mm'.kind = "write" /\ enable) =>
              /\ response' = "ERR"
              /\ UNCHANGED <<mmios, dma_output_buffer>>
       /\ ((\E f \in TCP_PL_CONFIG_CMDS : FieldOf(f, mmios') # FieldOf(f, mmios))
              \/ dma_output_buffer' # dma_output_buffer) =>
              (~enable /\ ~enable')
       /\ (enable' # enable) =>
              /\ \A f \in TCP_PL_CONFIG_CMDS :
                     FieldOf(f, mmios') = FieldOf(f, mmios)
              /\ dma_output_buffer' = dma_output_buffer]_vars

\* a configuration command arrived with the PL enabled and was refused
C35_Witness ==
    /\ mm.kind = "write"
    /\ mm.f \in TCP_PL_CONFIG_CMDS
    /\ enable
    /\ mm.result = "PLError"
    /\ response = "ERR"
    /\ mmios = mm.before

\* C36: once a run() that passed the readiness checks (it set the latch) has
\* ended, by returning or by raising, the running latch is clear.
C36_LatchClearAfterRun ==
    \A t \in Callers :
        (Ended(t) /\ \E i \in 1..Len(log[t]) : log[t][i] = <<"latch", "set">>)
            => ~running

(***************************************************************************)
(* Two orchestrators.  SLVNAConfig._running is a class attribute holding   *)
(* one threading.Event, so both orchestrators read and write `running`.    *)
(* Caller t1 runs a sweep on the first orchestrator; the second one is     *)
(* constructed at some moment and caller t2 runs a sweep on it.            *)
(***************************************************************************)
\* SLVNA.__init__ of the second orchestrator: `self._running.clear()`
slvna_init ==
    /\ pc["t2"] = "unbuilt"
    /\ running' = FALSE
    /\ pc' = [pc EXCEPT !["t2"] = "idle"]
    /\ UNCHANGED <<cfg, sweep_mode, has_clk, points, gen_open, output, sock,
                   idx, stack, exc, log, points_done, data, writes, recvd,
                   faults, serverVars, plVars, confVars>>

\* the first orchestrator constructed and ready for a frequency sweep, the
\* second one not yet constructed
InitTwo ==
    /\ ServerStart
    /\ PLStart
    /\ ConfStart
    /\ config_valid = TRUE
    /\ running = FALSE
    /\ sweep_mode = "frequency"
    /\ has_clk = TRUE
    /\ points = 1
    /\ gen_open = [g \in Gens |-> FALSE]
    /\ output = [g \in Gens |-> FALSE]
    /\ sock = [t \in Callers |-> "none"]
    /\ pc = [t \in Callers |-> IF t = "t1" THEN "idle" ELSE "unbuilt"]
    /\ idx = [t \in Callers |-> 0]
    /\ stack = [t \in Callers |-> <<>>]
    /\ exc = [t \in Callers |-> "none"]
    /\ log = [t \in Callers |-> <<>>]
    /\ points_done = [t \in Callers |-> 0]
    /\ data = [t \in Callers |-> [i \in 1..points |-> 0]]
    /\ writes = [t \in Callers |-> [i \in 1..points |-> 0]]
    /\ recvd = [t \in Callers |-> 0]
    /\ faults = FALSE
    /\ cfg = ReadyCfg

SpecTwo == InitTwo /\ [][NextRace \/ slvna_init]_vars

\* C37: the running latch is per orchestrator: while the first orchestrator
\* is inside its sweep it observes running set, whatever happens to the
\* second one; the second one, constructed and running nothing, observes
\* running clear; and run() on the second one is not refused as currently
\* performing a measurement.
C37_LatchPerOrchestrator ==
    /\ pc["t1"] \in {"fsweep", "enter", "connect", "pre", "loop", "post"}
           => running
    /\ pc["t2"] = "idle" => ~running
    /\ ~(pc["t2"] = "raised" /\ exc["t2"] = "ValueError")

(***************************************************************************)
(* The timing configuration of a sweep, from the client's readiness checks *)
(* to the server's verify_config.  Times on the client are counted in      *)
(* fifths of a microsecond (0.2 us), so that `time*1E6` never lies halfway *)
(* between two integers and `:.0f` rounds the same way on every build.     *)
(***************************************************************************)
\* f"{time*1E6:.0f}" of send_tpp, send_dead_time and send_trigger_length:
\* the whole number of microseconds that is sent
Microseconds(time) == Round(time, 5)

\* the caller is inside _fsweep, connected, about to configure the SoC; the
\* server waits for a command with the PL disabled, the registers as after
\* the overlay is loaded with points-per-transfer field 1
InitTiming ==
    /\ ServerStart
    /\ mmios = write_mmio("a", 1, Cleared)
    /\ mm = NoOp
    /\ nops = 0
    /\ first_dma = FALSE
    /\ dma_output_buffer = DMA_PACKET_LENGTH + 4
    /\ ConfStart
    /\ config_valid = FALSE
    /\ running = TRUE
    /\ sweep_mode = "frequency"
    /\ has_clk = TRUE
    /\ points = 1
    /\ gen_open = [g \in Gens |-> FALSE]
    /\ output = [g \in Gens |-> FALSE]
    /\ sock = [t \in Callers |-> IF t = "t1" THEN "open" ELSE "none"]
    /\ pc = [t \in Callers |-> IF t = "t1" THEN "send_tpp" ELSE "idle"]
    /\ idx = [t \in Callers |-> 0]
    /\ stack = [t \in Callers |-> <<>>]
    /\ exc = [t \in Callers |-> "none"]
    /\ log = [t \in Callers |-> <<>>]
    /\ points_done = [t \in Callers |-> 0]
    /\ data = [t \in Callers |-> [i \in 1..points |-> 0]]
    /\ writes = [t \in Callers |-> [i \in 1..points |-> 0]]
    /\ recvd = [t \in Callers |-> 0]
    /\ faults = FALSE
    \* the configurations that pass _ready_checks, with _deadtime and
    \* _triglen assigned by it; timestep, dead time and trigger length in
    \* fifths of a microsecond, 2500 and 50 being the 500 us and 10 us the
    \* AnaPico controller declares
    /\ LET FineTimesteps == {1, 2, 3, 5, 6, 8, 10, 2501, 2503, 2505, 5000}
           FineDeadTimes == {0, 1, 5, 2500}
           FineTrigLens == {0, 2, 5, 50}
       IN  cfg \in
             {c \in [required : {TRUE}, timestep : FineTimesteps,
                     rf_dead : FineDeadTimes, lo_dead : FineDeadTimes,
                     rf_trig : FineTrigLens, lo_trig : FineTrigLens,
                     rf_fsweep : {TRUE}, lo_fsweep : {TRUE}, clk_cw : {TRUE},
                     deadtime : FineDeadTimes, triglen : FineTrigLens] :
                 /\ c.deadtime = Max(c.rf_dead, c.lo_dead)
                 /\ c.triglen = Max(c.rf_trig, c.lo_trig)
                 /\ ~(c.timestep <= c.deadtime)
                 /\ ~(c.timestep <= c.triglen)}

\* one of send_tpp, send_dead_time, send_trigger_length with its handling
\* by the server: determine_response takes int(data[1:]), change_config
\* writes the field or raises, the client ignores the response
send_time(at, f, time, then) ==
    /\ pc["t1"] = at
    /\ hpc = "recv"
    /\ cmd' = f
    /\ LET value == Microseconds(time)
           outcome == IF enable THEN "PLError" ELSE WriteOutcome(f, value)
       IN  /\ mm' = [kind |-> "write", f |-> f, value |-> value,
                     result |-> outcome, before |-> mmios, read |-> <<0, 1>>,
                     args |-> NoArgs, strip |-> "none"]
           /\ mmios' = IF outcome = "ok" THEN write_mmio(f, value, mmios)
                       ELSE mmios
           /\ response' = IF outcome = "ok" THEN "OK" ELSE "ERR"
    /\ pc' = [pc EXCEPT !["t1"] = then]
    /\ log' = [log EXCEPT !["t1"] = Append(@, <<"tcp", at>>)]
    /\ UNCHANGED <<running, sweep_mode, has_clk, points, gen_open, output,
                   sock, idx, stack, exc, points_done, data, writes, recvd,
                   faults, cfg, confVars>>
    /\ UNCHANGED <<fetch, paused, exit, queue, enable, config_valid, ppc, new,
                   put_i, dma_epoch, fetch_func, hpc, data_packet, epoch,
                   pl_next, sent, full_hit, ncmds, nfetches, listen_sock,
                   stop_log, server_waits_for_client, accepts>>
    /\ UNCHANGED <<nops, first_dma, dma_output_buffer>>

\* start_acquisition with start_dma on the server, the producer waiting in
\* its pause loop: verify_config, then pause_dma, enable and fetch.set();
\* a refusal is answered ERR and the client raises RuntimeError
start_acquisition ==
    /\ pc["t1"] = "start_acquisition"
    /\ hpc = "recv"
    /\ paused
    /\ cmd' = "r1"
    /\ ncmds' = ncmds + 1
    /\ log' = [log EXCEPT !["t1"] = Append(@, <<"tcp", "start_acquisition">>)]
    /\ IF verify_config(mmios)
       THEN /\ response' = "OK"
            /\ enable' = TRUE
            /\ mmios' = EnableWrite(TRUE, FALSE, EnableWrite(FALSE, enable, mmios))
            /\ first_dma' = TRUE
            /\ fetch' = TRUE
            /\ epoch' = epoch + 1
            /\ pc' = [pc EXCEPT !["t1"] = "acquiring"]
            /\ exc' = exc
       ELSE /\ response' = "ERR"
            /\ pc' = [pc EXCEPT !["t1"] = "raised"]
            /\ exc' = [exc EXCEPT !["t1"] = "RuntimeError"]
            /\ UNCHANGED <<enable, mmios, first_dma, fetch, epoch>>
    /\ UNCHANGED <<running, sweep_mode, has_clk, points, gen_open, output,
                   sock, idx, stack, points_done, data, writes, recvd,
                   faults, cfg, confVars>>
    /\ UNCHANGED <<paused, exit, queue, config_valid, ppc, new, put_i,
                   dma_epoch, fetch_func, hpc, data_packet, pl_next, sent,
                   full_hit, nfetches, listen_sock, stop_log,
                   server_waits_for_client, accepts>>
    /\ UNCHANGED <<mm, nops, dma_output_buffer>>

\* _fsweep: send_tpp(self.timestep), send_dead_time(self._deadtime),
\* send_trigger_length(self._triglen), then start_acquisition
SpecTiming ==
    InitTiming
    /\ [][\/ send_time("send_tpp", "p", cfg.timestep, "send_dead_time")
          \/ send_time("send_dead_time", "g", cfg.deadtime,
                       "send_trigger_length")
          \/ send_time("send_trigger_length", "t", cfg.triglen,
                       "start_acquisition")
          \/ start_acquisition]_vars

\* C38: every configuration that passed the readiness checks of the client
\* gives, once timestep, dead time and trigger length are sent as whole
\* microseconds, register contents that pass verify_config, and
\* start_acquisition is not refused.
C38_ReadyImpliesVerified ==
    /\ pc["t1"] = "start_acquisition" => verify_config(mmios)
    /\ ~(pc["t1"] = "raised" /\ exc["t1"] = "RuntimeError")

(***************************************************************************)
(* The register operations of SpecMMIO from the power-on state: PLInterface *)
(* as constructed (buffer of DMA_PACKET_LENGTH + 4 words, PL disabled) and  *)
(* the points-per-transfer field holding 1.                                 *)
(***************************************************************************)
\* PLInterface as constructed, the points-per-transfer field holding 1
InitPowerOn ==
    /\ ServerStart
    /\ ClientAtRest
    /\ config_valid = TRUE
    /\ mmios = write_mmio("a", 1, Cleared)
    /\ mm = NoOp
    /\ nops = 0
    /\ first_dma = FALSE
    /\ dma_output_buffer = DMA_PACKET_LENGTH + 4

SpecPowerOn == InitPowerOn /\ [][NextMMIO]_vars

\* C39: from power-on with points-per-transfer 1, after any sequence of
\* register commands (a points-per-transfer command accepted, clamped to 1
\* or rejected) the DMA buffer holds 12 * PPT + 4 words, PPT being the
\* content of the points-per-transfer field, and the points_per_transfer
\* getter returns that content.
C39_BufferMatchesField ==
    /\ dma_output_buffer = 12 * FieldOf("a", mmios) + 4
    /\ points_per_transfer(dma_output_buffer) = FieldOf("a", mmios)

\* a points-per-transfer command above 1 was accepted
C39_Witness ==
    /\ mm.kind = "write"
    /\ mm.f = "a"
    /\ mm.result = "ok"
    /\ mm.value > 1
    /\ FieldOf("a", mmios) = mm.value
    /\ FieldOf("a", mm.before) # mm.value

(***************************************************************************)
(* One connection from accept to disconnect.  sock["t1"] is the socket of  *)
(* the connected client: commands arrive while it is open, conn.recv       *)
(* returns b"" once it is closed.  The producer thread and the handler     *)
(* thread are both scheduled: each takes a step when it can.               *)
(***************************************************************************)
\* a server with a valid configuration, its first client just accepted
InitLive ==
    /\ ServerStart
    /\ mmios \in {m \in StartContents : verify_config(m)}
    /\ mm = NoOp
    /\ nops = 0
    /\ first_dma = FALSE
    /\ dma_output_buffer = DMA_PACKET_LENGTH + 4
    /\ ConfStart
    /\ config_valid = TRUE
    /\ running = FALSE
    /\ sweep_mode = "frequency"
    /\ has_clk = TRUE
    /\ points = 1
    /\ gen_open = [g \in Gens |-> FALSE]
    /\ output = [g \in Gens |-> FALSE]
    /\ sock = [t \in Callers |-> IF t = "t1" THEN "open" ELSE "none"]
    /\ pc = [t \in Callers |-> "idle"]
    /\ idx = [t \in Callers |-> 0]
    /\ stack = [t \in Callers |-> <<>>]
    /\ exc = [t \in Callers |-> "none"]
    /\ log = [t \in Callers |-> <<>>]
    /\ points_done = [t \in Callers |-> 0]
    /\ data = [t \in Callers |-> [i \in 1..points |-> 0]]
    /\ writes = [t \in Callers |-> [i \in 1..points |-> 0]]
    /\ recvd = [t \in Callers |-> 0]
    /\ faults = FALSE
    /\ cfg = ReadyCfg

\* the inner loop of serve_one_client for this connection and the pause_dma
\* that follows it: a command is received from the open socket; b"" from
\* the closed one ends the loop once a command has been processed, and is
\* followed by `sleep(0); continue` before that
serve_one_client ==
    \/ sock["t1"] = "open" /\ h_recv
    \/ sock["t1"] = "closed" /\ h_disconnect
    \/ /\ sock["t1"] = "closed"
       /\ hpc = "recv"
       /\ server_waits_for_client
       /\ UNCHANGED vars
    \/ h_stop_exit
    \/ h_join
    \/ h_stop_disable
    \/ h_get
    \/ h_pause_clear
    \/ h_pause_wait
    \/ h_pause_disable
    \/ h_flush
    \/ h_flush_check
    \/ h_enable
    \/ h_fetch_set

SpecLive ==
    /\ InitLive
    /\ [][\/ keep_fetching
          \/ serve_one_client
          \/ /\ sock["t1"] = "open"
             /\ sock' = [sock EXCEPT !["t1"] = "closed"]
             /\ UNCHANGED <<running, sweep_mode, has_clk, points, gen_open,
                            output, pc, idx, stack, exc, log, points_done,
                            data, writes, recvd, faults, cfg, confVars,
                            serverVars, plVars>>]_vars
    /\ WF_vars(keep_fetching)
    /\ WF_vars(serve_one_client)

\* C40: whenever the connected client disconnects, before its first command
\* or in the middle of an acquisition, the server (not told to stop by this
\* client) eventually leaves the per-connection loop with acquisition
\* paused: fetch cleared, the producer paused and the PL enable bit 0.
C40_DisconnectLeadsToPause ==
    (sock["t1"] = "closed" /\ cmd # "!")
        ~> (hpc = "accept" /\ fetch = FALSE /\ paused = TRUE /\ enable = FALSE)

====
